---- MODULE Spec2Model ----
(***************************************************************************)
(* A model of the two-level subspace-correction preconditioner of          *)
(* demos/subspace_correction/pulley.py (SubspaceCorrectionPrec, PatchPC,   *)
(* P1PC) and of the halo exchange of firedrake/halo.py.                    *)
(*                                                                         *)
(* Numbers.  Vectors and matrices hold integers.  A linear solve is the    *)
(* exact solve (Cramer's rule); the residuals handed to apply are the      *)
(* multiples of SolveUnit, the least common multiple of the determinants   *)
(* of the operators in use, so that every solve of a run is exact in the   *)
(* integers.  Every behaviour of the model is therefore a behaviour of the *)
(* program in exact real arithmetic.                                       *)
(*                                                                         *)
(* Indices.  Node, cell and patch-local numbers are 0-based as in the      *)
(* numpy arrays of the program; TLA+ sequences are 1-based, so entry c of  *)
(* node d of a vector with block size bs sits at position d*bs + c + 1     *)
(* (the program's reshape(-1, bs)[d][c]).                                  *)
(***************************************************************************)
EXTENDS Integers, Sequences, FiniteSets, TLC

\* ------------------------------------------------------------------ bounds
MaxCells == 3
MaxVal == 1
MaxVersion == 1
MaxCalls == 2
MaxProcs == 2
MaxWorkers == 2
ScenarioCells == 10
ScenarioDegree == 3

\* ---------------------------------------------------------- linear algebra
RECURSIVE SumSeq(_)
SumSeq(s) == IF s = <<>> THEN 0 ELSE Head(s) + SumSeq(Tail(s))

Abs(a) == IF a < 0 THEN -a ELSE a

RECURSIVE Gcd(_, _)
Gcd(a, c) == IF c = 0 THEN Abs(a) ELSE Gcd(c, a % Abs(c))

Lcm(a, c) == IF a = 0 \/ c = 0 THEN 0 ELSE (Abs(a) \div Gcd(a, c)) * Abs(c)

RECURSIVE LcmSeq(_)
LcmSeq(s) == IF s = <<>> THEN 1 ELSE Lcm(Head(s), LcmSeq(Tail(s)))

RECURSIVE GcdSeq(_)
GcdSeq(s) == IF s = <<>> THEN 0 ELSE Gcd(Head(s), GcdSeq(Tail(s)))

\* a vector and a matrix held entry by entry (a tuple, a tuple of tuples)
Stored(v) == SubSeq(v, 1, Len(v))

StoredMat(m) == Stored([r \in 1..Len(m) |-> Stored(m[r])])

ZeroVec(n) == [k \in 1..n |-> 0]

ZeroMat(n, m) == [r \in 1..n |-> [c \in 1..m |-> 0]]

Dot(u, v) == SumSeq([k \in 1..Len(u) |-> u[k] * v[k]])

\* Mat.mult: out = m * v
MatMult(m, v) == [r \in 1..Len(m) |-> Dot(m[r], v)]

\* Mat.multTranspose: out = m^T * v, accumulated column by column from the
\* one stored matrix m
MatMultTranspose(m, v) ==
    IF Len(m) = 0 THEN <<>>
    ELSE [c \in 1..Len(m[1]) |-> SumSeq([r \in 1..Len(m) |-> m[r][c] * v[r]])]

DropAt(s, j) == SubSeq(s, 1, j - 1) \o SubSeq(s, j + 1, Len(s))

RECURSIVE DropCol(_, _)
DropCol(rows, j) ==
    IF rows = <<>> THEN <<>>
    ELSE <<DropAt(Head(rows), j)>> \o DropCol(Tail(rows), j)

RECURSIVE Det(_)
RECURSIVE DetRow(_, _)
\* Laplace expansion along the first row, from column j on
DetRow(m, j) ==
    IF j > Len(m) THEN 0
    ELSE (IF m[1][j] = 0 THEN 0
          ELSE (IF j % 2 = 1 THEN 1 ELSE -1) * m[1][j] * Det(DropCol(Tail(m), j)))
         + DetRow(m, j + 1)
Det(m) == IF Len(m) = 0 THEN 1 ELSE DetRow(m, 1)

ReplaceCol(m, j, v) == [r \in 1..Len(m) |-> [m[r] EXCEPT ![j] = v[r]]]

\* the common factor g of the entries of rhs and rhs / g
Reduced(rhs) ==
    LET g == GcdSeq(rhs)
    IN IF g = 0 THEN [g |-> 1, v |-> rhs]
       ELSE [g |-> g, v |-> [k \in 1..Len(rhs) |-> rhs[k] \div g]]

\* The exact solution of m * u = rhs by Cramer's rule, u[k] = det(m with
\* column k replaced by rhs) / det(m), the common factor of rhs taken out of
\* the determinants; the operator is nonsingular and the quotients are exact
\* wherever this is used (Solvable).
DirectSolve(m, rhs) ==
    LET d == Det(m)
        red == Reduced(rhs)
        gd == Gcd(red.g, d)
        sgn == IF d < 0 THEN -1 ELSE 1
    IN [k \in 1..Len(m) |->
          sgn * (Det(ReplaceCol(m, k, red.v)) \div (Abs(d) \div gd)) * (red.g \div gd)]

Solvable(m, rhs) ==
    LET d == Det(m)
        red == Reduced(rhs)
    IN /\ d # 0
       /\ \A k \in 1..Len(m) :
             Det(ReplaceCol(m, k, red.v)) % (Abs(d) \div Gcd(red.g, d)) = 0

\* numpy slicing value[lo:hi] of a 0-based array held as a sequence
Slice(value, lo, hi) == SubSeq(value, lo + 1, hi)

RECURSIVE Flatten(_)
Flatten(ss) == IF ss = <<>> THEN <<>> ELSE Head(ss) \o Flatten(Tail(ss))

RECURSIVE Offsets(_, _)
\* the offset array of a list of lists: 0, len(l1), len(l1)+len(l2), ...
Offsets(ss, from) ==
    IF ss = <<>> THEN <<from>>
    ELSE <<from>> \o Offsets(Tail(ss), from + Len(Head(ss)))

\* the offset/value pair the program keeps for per-patch lists
Ragged(ss) == [offset |-> Offsets(ss, 0), value |-> Flatten(ss)]

Range(s) == {s[k] : k \in 1..Len(s)}

\* position (1-based) of the first occurrence of e in s, 0 when absent
IndexOf(s, e) ==
    IF e \in Range(s) THEN CHOOSE k \in 1..Len(s) : s[k] = e /\ \A q \in 1..(k - 1) : s[q] # e
    ELSE 0

RECURSIVE Dedup(_)
\* s without repeated entries, first occurrences kept in order
Dedup(s) ==
    IF s = <<>> THEN <<>>
    ELSE LET r == Dedup(SubSeq(s, 1, Len(s) - 1))
             e == s[Len(s)]
         IN IF e \in Range(r) THEN r ELSE Append(r, e)

RECURSIVE SortedSeq(_)
\* the elements of a finite set of integers in increasing order
SortedSeq(S) ==
    IF S = {} THEN <<>>
    ELSE LET lo == CHOOSE e \in S : \A f \in S : e <= f
         IN <<lo>> \o SortedSeq(S \ {lo})

\* ------------------------------------------------- mesh and function spaces
\* A uniform interval mesh of n cells: vertices 0..n, cell c between the
\* vertices c and c+1.  The degree-k Lagrange space has one node per vertex
\* (node v for vertex v) and k-1 nodes inside each cell.
NumNodes(n, k) == n * k + 1

\* V.cell_node_map().values[c]: the nodes of cell c, vertices first
CellNodes(n, k, c) ==
    <<c, c + 1>> \o [j \in 1..(k - 1) |-> n + 1 + c * (k - 1) + (j - 1)]

NodesPerCell(k) == k + 1

\* bc.nodes of a DirichletBC on the sub-domains subs of the interval
\* (1: the left end, 2: the right end, 3: the marked vertices 0 and 1), in
\* increasing order
BcNodes(n, subs) ==
    SortedSeq({v \in 0..n : \/ v = 0 /\ 1 \in subs
                            \/ v = n /\ 2 \in subs
                            \/ v \in {0, 1} /\ 3 \in subs})

\* get_cell_facet_patches: one patch per interior vertex v, holding its two
\* incident cells and the facets (vertices) of those cells on the patch
\* boundary that are shared with a cell outside the patch
PatchVertices(n) == [p \in 1..(n - 1) |-> p]

PatchCells(n) == [p \in 1..(n - 1) |-> <<p - 1, p>>]

PatchFacets(n) ==
    [p \in 1..(n - 1) |-> SortedSeq({u \in {p - 1, p + 1} : 0 < u /\ u < n})]

get_cell_facet_patches(n) ==
    [cells |-> Ragged(PatchCells(n)), facets |-> Ragged(PatchFacets(n))]

\* the nodes of the cells of a patch one cell after the other, a node two
\* cells share listed twice
GlobPatchRepeated(n, k, cells) ==
    Flatten([q \in 1..Len(cells) |-> CellNodes(n, k, cells[q])])

\* get_dof_patches, for patch p (1-based position in the patch list):
\* the global nodes of the patch in order of first appearance in its cells,
GlobPatch(n, k, cells) ==
    Dedup(Flatten([q \in 1..Len(cells) |-> CellNodes(n, k, cells[q])]))

\* the patch-local number of every node of every cell of the patch,
DofPatch(n, k, cells) ==
    LET g == GlobPatch(n, k, cells)
    IN Flatten([q \in 1..Len(cells) |->
                  [a \in 1..NodesPerCell(k) |->
                      IndexOf(g, CellNodes(n, k, cells[q])[a]) - 1]])

\* a marking that also fixes the end vertices of the patch that no cell
\* outside the patch shares
BcPatchAllEnds(n, k, cells, facets, bcnodes) ==
    LET g == GlobPatch(n, k, cells)
    IN SortedSeq({l \in 0..(Len(g) - 1) :
                     \/ g[l + 1] \in Range(bcnodes)
                     \/ g[l + 1] \in {cells[1], cells[Len(cells)] + 1}})

\* and the patch-local numbers of the boundary-fixed nodes: those in the
\* global boundary set and those on a patch-boundary facet.
BcPatch(n, k, cells, facets, bcnodes) ==
    LET g == GlobPatch(n, k, cells)
    IN SortedSeq({l \in 0..(Len(g) - 1) :
                     g[l + 1] \in Range(bcnodes) \/ g[l + 1] \in Range(facets)})

get_dof_patches(n, k, bcnodes, cells, facets) ==
    LET np == Len(cells.offset) - 1
        cellsOf(p) == Slice(cells.value, cells.offset[p], cells.offset[p + 1])
        facetsOf(p) == Slice(facets.value, facets.offset[p], facets.offset[p + 1])
    IN [d |-> Ragged([p \in 1..np |-> DofPatch(n, k, cellsOf(p))]),
        g |-> Ragged([p \in 1..np |-> GlobPatch(n, k, cellsOf(p))]),
        b |-> Ragged([p \in 1..np |->
                        BcPatch(n, k, cellsOf(p), facetsOf(p), bcnodes)])]

\* ---------------------------------------------- SubspaceCorrectionPrec
\* The arguments of the constructor: the mesh size, the degree, rank and
\* vector dimension of the function space V of the form, and bcs.
\* bcs is None, one DirichletBC (not iterable), or a list of them; a
\* DirichletBC is given by the set of its sub-domain ids.
NoBcs == [kind |-> "None", val |-> <<>>]
OneBc(subs) == [kind |-> "single", val |-> [sub_domain |-> subs]]
ListOfBcs(l) == [kind |-> "list", val |-> l]

BcInputs ==
    {NoBcs, OneBc({1}), ListOfBcs(<<[sub_domain |-> {1}], [sub_domain |-> {1, 2}]>>)}

Degrees == {1, 2}

\* (rank, dim) of a FunctionSpace and of a VectorFunctionSpace(dim=2)
Shapes == {<<0, 1>>, <<1, 2>>}

\* the problems of the model: every combination but the vector-valued
\* quadratic one, whose patch operators are the largest
Problems ==
    {pr \in {[ncells |-> n, degree |-> k, rank |-> sh[1], dim |-> sh[2], bcs |-> bi] :
                n \in 2..MaxCells, k \in Degrees, sh \in Shapes, bi \in BcInputs} :
        ~(pr.degree > 1 /\ pr.dim > 1)}

\* linear problems whose boundary conditions fix the marked vertices 0 and 1
\* and the right end: the first patch has no free dof left
MarkedBcs == ListOfBcs(<<[sub_domain |-> {3}], [sub_domain |-> {2}]>>)

MarkedProblems ==
    {[ncells |-> n, degree |-> 1, rank |-> sh[1], dim |-> sh[2], bcs |-> MarkedBcs] :
        n \in 2..MaxCells, sh \in Shapes}

\* __init__, lines 51-59: bcs as a tuple; () for None, tuple(bcs) for an
\* iterable, (bcs, ) when tuple(bcs) raises TypeError
NormalizeBcs(bi) ==
    IF bi.kind = "None" THEN <<>>
    ELSE IF bi.kind = "single" THEN <<bi.val>>
    ELSE bi.val

\* boundary nodes taken from the first condition only
FirstBcNodes(n, bcs) ==
    IF bcs = <<>> THEN <<>> ELSE BcNodes(n, bcs[1].sub_domain)

\* __init__, lines 53 and 60: the sorted, duplicate-free boundary nodes
UniqueBcNodes(n, bcs) ==
    SortedSeq(UNION {Range(BcNodes(n, bcs[q].sub_domain)) : q \in 1..Len(bcs)})

SubspaceCorrectionPrecInit(pr) ==
    LET bcs == NormalizeBcs(pr.bcs)
        bcnodes == UniqueBcNodes(pr.ncells, bcs)
        cf == get_cell_facet_patches(pr.ncells)
        dgb == get_dof_patches(pr.ncells, pr.degree, bcnodes, cf.cells, cf.facets)
    IN [ncells |-> pr.ncells, degree |-> pr.degree, rank |-> pr.rank,
        dim |-> pr.dim, bcs |-> bcs,
        cells |-> cf.cells, facets |-> cf.facets,
        dof_patches |-> dgb.d, glob_patches |-> dgb.g, bc_patches |-> dgb.b]

NumPatches(c) == Len(c.dof_patches.offset) - 1

\* glob_patches.value[offset[i]:offset[i+1]] for the i-th patch (i from 1)
PatchDofs(c, i) ==
    Slice(c.glob_patches.value, c.glob_patches.offset[i], c.glob_patches.offset[i + 1])

\* bc_patches.value[offset[i]:offset[i+1]]
BcDofs(c, i) ==
    Slice(c.bc_patches.value, c.bc_patches.offset[i], c.bc_patches.offset[i + 1])

\* the patch-local number (from 0) of global node d in patch p, -1 if absent
LocalOf(c, p, d) == IndexOf(PatchDofs(c, p), d) - 1

\* all the dofs of patch p are boundary-fixed
Degenerate(c, p) == Len(BcDofs(c, p)) = Len(PatchDofs(c, p))

\* the length of a vector of V
VecLen(c) == NumNodes(c.ncells, c.degree) * c.dim

\* ------------------------------------------------------- patch operators
\* The element tensor the compiled kernel adds for one cell, for the form
\* data of operator version ver: node order as in CellNodes, a path-graph
\* stiffness along the cell plus (ver + 1) times the identity, the same in
\* every vector component and zero between components.
GeomPos(k, a) == IF a = 1 THEN 0 ELSE IF a = 2 THEN k ELSE a - 2

ElementScalar(k, ver, a, bb) ==
    LET pa == GeomPos(k, a)
        pb == GeomPos(k, bb)
    IN IF a = bb THEN (IF pa = 0 \/ pa = k THEN 1 ELSE 2) + ver + 1
       ELSE IF pa - pb = 1 \/ pb - pa = 1 THEN -1 ELSE 0

\* entry ((a, ca), (bb, cb)) of the element tensor; a, bb from 1, ca, cb from 0
ElementEntry(k, ver, a, ca, bb, cb) ==
    IF ca = cb THEN ElementScalar(k, ver, a, bb) ELSE 0

\* matrix_callable(0, end, cells, mat, mmap, mmap, ...): the dense matrix of
\* side size with every cell's element tensor added at the rows and columns
\* dim*mmap[node] + component
MatrixCallable(k, dim, ver, size, ncell, mmap) ==
    LET npc == NodesPerCell(k)
        local(q, a) == mmap[(q - 1) * npc + a]
    IN [r \in 1..size |-> [s \in 1..size |->
         SumSeq([t \in 1..(ncell * npc * npc) |->
            LET q == ((t - 1) \div (npc * npc)) + 1
                a == (((t - 1) % (npc * npc)) \div npc) + 1
                bb == ((t - 1) % npc) + 1
            IN IF local(q, a) = (r - 1) \div dim /\ local(q, bb) = (s - 1) \div dim
               THEN ElementEntry(k, ver, a, (r - 1) % dim, bb, (s - 1) % dim)
               ELSE 0])]]

\* the rows of the first component only
BlockRowsFirstComponent(rows, dim) == [q \in 1..Len(rows) |-> dim * rows[q]]

\* numpy.dstack([dim*rows + i for i in range(dim)]).flatten()
BlockRows(rows, dim) ==
    Flatten([q \in 1..Len(rows) |-> [c \in 1..dim |-> dim * rows[q] + (c - 1)]])

\* an elimination that zeroes the rows and leaves the columns
ZeroRowsOnly(m, rows) ==
    [r \in 1..Len(m) |-> [s \in 1..Len(m) |->
        IF (r - 1) \in Range(rows)
        THEN (IF r = s THEN 1 ELSE 0)
        ELSE m[r][s]]]

\* Mat.zeroRowsColumns(rows): the rows and columns zeroed, one on the diagonal
ZeroRowsColumns(m, rows) ==
    [r \in 1..Len(m) |-> [s \in 1..Len(m) |->
        IF (r - 1) \in Range(rows) \/ (s - 1) \in Range(rows)
        THEN (IF r = s THEN 1 ELSE 0)
        ELSE m[r][s]]]

\* an operator sized by the dofs of the patch that are not boundary-fixed
PatchMatrixFreeSized(c, ver, i) ==
    LET dim == c.dim
        size == (Len(PatchDofs(c, i)) - Len(BcDofs(c, i))) * dim
        mmap == Slice(c.dof_patches.value, c.dof_patches.offset[i],
                      Len(c.dof_patches.value))
        end == c.cells.offset[i + 1] - c.cells.offset[i]
        mat == MatrixCallable(c.degree, dim, ver, size, end, mmap)
    IN StoredMat(mat)

\* the body of the loop of matrices, for the i-th patch
PatchMatrix(c, ver, i) ==
    LET dim == c.dim
        size == (c.glob_patches.offset[i + 1] - c.glob_patches.offset[i]) * dim
        mmap == Slice(c.dof_patches.value, c.dof_patches.offset[i],
                      Len(c.dof_patches.value))
        end == c.cells.offset[i + 1] - c.cells.offset[i]
        mat == MatrixCallable(c.degree, dim, ver, size, end, mmap)
        rows == BlockRows(BcDofs(c, i), dim)
    IN StoredMat(ZeroRowsColumns(StoredMat(mat), rows))

\* the cached property matrices: one operator per patch
Matrices(c, ver) == [i \in 1..NumPatches(c) |-> PatchMatrix(c, ver, i)]

\* --------------------------------------------------------------- inputs
\* the residuals of the model, before scaling: zero, the multiples v * e_k of
\* the unit vectors and the constant vectors, v in 1..MaxVal
InputVecs(len) ==
    {ZeroVec(len)}
    \cup {[q \in 1..len |-> IF q = k THEN v ELSE 0] : k \in 1..len, v \in 1..MaxVal}
    \cup {[q \in 1..len |-> v] : v \in 1..MaxVal}

Scaled(unit, u) == [k \in 1..Len(u) |-> unit * u[k]]

\* the least d > 0 with d * m^-1 integral: det(m) over the gcd of det(m) and
\* the cofactors of m; 1 for a singular m, which has no inverse
Denominator(m) ==
    LET n == Len(m)
        d == Det(m)
        unitv(j) == [k \in 1..n |-> IF k = j THEN 1 ELSE 0]
        cof(r) == Stored([t \in 1..n |-> Det(ReplaceCol(m, t, unitv(r)))])
        rowGcd == Stored([r \in 1..n |-> GcdSeq(cof(r))])
    IN IF d = 0 THEN 1 ELSE Abs(d) \div Gcd(d, GcdSeq(rowGcd))

\* ------------------------------------------------ coarse space and transfer
\* the nodes of the boundary conditions of P1_bcs: DirichletBC(P1, val,
\* bc.sub_domain) for every bc of bcs
P1BcNodes(c) == UniqueBcNodes(c.ncells, c.bcs)

\* the length of a vector of P1
P1VecLen(c) == NumNodes(c.ncells, 1) * c.dim

\* P1_op: assemble(P1_form, bcs=P1_bcs), the form on the degree-1 space with
\* the rows and columns of the boundary nodes replaced by the identity
P1Operator(c, ver) ==
    LET n == c.ncells
        mmap == Flatten([q \in 1..n |-> CellNodes(n, 1, q - 1)])
        mat == MatrixCallable(1, c.dim, ver, P1VecLen(c), n, mmap)
    IN StoredMat(ZeroRowsColumns(StoredMat(mat), BlockRows(P1BcNodes(c), c.dim)))

\* transfer_kernel, lines 168-179: the weights between the two local bases,
\* the values of the P1 basis functions at the nodes of Pk, in units of 1/k;
\* P1 by Pk for the restriction, transposed for the prolongation
TransferWeights(k, restriction) ==
    LET matrix == [a \in 1..2 |-> [j \in 1..NodesPerCell(k) |->
                     IF a = 1 THEN k - GeomPos(k, j) ELSE GeomPos(k, j)]]
    IN IF restriction THEN matrix
       ELSE [j \in 1..NodesPerCell(k) |-> [a \in 1..2 |-> matrix[a][j]]]

\* transfer_op: the one assembled matrix, P1 rows by V columns; every cell
\* writes (not adds) the restriction weights at its nodes, boundary nodes of
\* either space are left out, components do not mix
TransferOp(c) ==
    LET n == c.ncells
        k == c.degree
        w == TransferWeights(k, TRUE)
        vbc == Range(UniqueBcNodes(n, c.bcs))
        pbc == Range(P1BcNodes(c))
        cellsOf(pn, fn) == {q \in 0..(n - 1) :
                              pn \in Range(CellNodes(n, 1, q)) /\ fn \in Range(CellNodes(n, k, q))}
        last(S) == CHOOSE q \in S : \A r \in S : r <= q
        entry(pn, fn) ==
            IF pn \in pbc \/ fn \in vbc \/ cellsOf(pn, fn) = {} THEN 0
            ELSE LET q == last(cellsOf(pn, fn))
                 IN w[IndexOf(CellNodes(n, 1, q), pn)][IndexOf(CellNodes(n, k, q), fn)]
    IN StoredMat([r \in 1..P1VecLen(c) |-> [t \in 1..VecLen(c) |->
          IF (r - 1) % c.dim = (t - 1) % c.dim
          THEN entry((r - 1) \div c.dim, (t - 1) \div c.dim)
          ELSE 0]])

\* a prolongation assembled on its own from the prolongation kernel, every
\* cell adding its weights and no boundary node left out
IndependentProlongation(c) ==
    LET n == c.ncells
        k == c.degree
        w == TransferWeights(k, FALSE)
        at(q, fn, pn) ==
            IF pn \in Range(CellNodes(n, 1, q)) /\ fn \in Range(CellNodes(n, k, q))
            THEN w[IndexOf(CellNodes(n, k, q), fn)][IndexOf(CellNodes(n, 1, q), pn)]
            ELSE 0
    IN StoredMat([t \in 1..VecLen(c) |-> [r \in 1..P1VecLen(c) |->
          IF (r - 1) % c.dim = (t - 1) % c.dim
          THEN SumSeq([q \in 1..n |-> at(q - 1, (t - 1) \div c.dim, (r - 1) \div c.dim)])
          ELSE 0]])

\* what assembling gives for context c and operator version ver: the patch
\* operators and the coarse operator, with the units of their solves
Assemble(c, ver) ==
    LET ms == Matrices(c, ver)
        p1 == P1Operator(c, ver)
    IN [matrices |-> ms,
        unit |-> LcmSeq([q \in 1..Len(ms) |-> Denominator(ms[q])]),
        P1_op |-> p1,
        P1_unit |-> Denominator(p1)]

VARIABLES
    ctx,        \* the SubspaceCorrectionPrec the python matrix P carries
    assembled,  \* per operator version (from 0), what assembling it gives
    opVersion,  \* the version of the form data (coefficients, coordinates)
    cache,      \* the cached properties of ctx that have been evaluated
    ksp,        \* PatchPC: self.ksp, "none" before setUp
    pcA,        \* PatchPC.apply: the statement about to run, "idle" outside
    i,          \* PatchPC.apply: the loop index (patches count from 1)
    x,          \* the residual of the running (or last) apply
    y,          \* the caller's output vector
    b,          \* PatchPC.apply: the local right-hand side
    ly,         \* PatchPC.apply: the local solution
    tmp_ys,     \* PatchPC.apply: the local solutions stored by the first loop
    raised,     \* the exception the last call ended with, "" for none
    hist,       \* observations of the run, read by the properties only
    lo,         \* P1PC: self.pc, self.transfer; "none" before setUp
    work1,      \* P1PC: self.work1
    work2,      \* P1PC: self.work2
    pcB,        \* P1PC.apply: the statement about to run, "idle" outside
    xc,         \* the residual of the running (or last) P1PC.apply
    yc,         \* the output vector of P1PC.apply
    pcC,        \* the composite operator: the stage of its apply
    halo,       \* the Halo of V: its communicator, the exchange in flight, _MPI_types
    wk,         \* the workers that run the iterations of apply's loops, "off" if none
    obj,        \* the call of the constructor that makes ctx, and what it raised
    form,       \* the form a: the kernel infos compile_form gives for it
    mpi,        \* halo.py: _MPI_types, the Halos, the dats, the call that runs
    snes        \* variational_solver.py: the class counter, the solvers, the options

vars == <<ctx, assembled, opVersion, cache, ksp, pcA, i, x, y, b, ly, tmp_ys, raised,
          hist, lo, work1, work2, pcB, xc, yc, pcC, halo, wk, obj, form, mpi, snes>>

\* what no statement of PatchPC, P1PC or the constructor writes
elsewhere == <<form, mpi, snes>>

\* what PatchPC leaves alone
outsidePatch == <<elsewhere, ctx, assembled, lo, work1, work2, pcB, xc, yc, pcC, halo, wk, obj>>

outsideWorkers == <<elsewhere, ctx, assembled, lo, work1, work2, pcB, xc, yc, pcC, halo, obj>>

\* what P1PC leaves alone
outsideP1 == <<elsewhere, ctx, assembled, ksp, pcA, i, x, y, b, ly, tmp_ys, pcC, halo, wk, obj>>

NoKsp == [exists |-> FALSE, prefix |-> "", op |-> <<>>, factored |-> FALSE]

NoCache ==
    [matrices |-> <<>>, hasMatrices |-> FALSE,
     P1_op |-> <<>>, hasP1_op |-> FALSE,
     transfer_op |-> <<>>, hasTransfer_op |-> FALSE]

NoLo == [exists |-> FALSE, prefix |-> "", op |-> <<>>, transfer |-> <<>>]

HistInit ==
    [applies |-> 0,            \* apply calls begun
     loops |-> 0,              \* apply calls that reached the loop over the patches
     setups |-> 0,             \* setUp calls
     setupVersion |-> -1,      \* the operator version at the last PatchPC.setUp
     factorizations |-> <<>>,  \* per patch, the factorizations done so far
     matricesVersion |-> -1,   \* the operator version matrices was built for
     P1Version |-> -1,         \* the operator version P1_op was built for
     solvedWith |-> <<>>,      \* per solve of this apply, the patch whose operator the handle held
     kspPatch |-> 0,           \* the patch whose operator the handle holds, 0 for none
     haloExchanges |-> 0,      \* halo exchanges ended since the last apply began
     failed |-> 0]             \* the patch whose factorization failed in this apply, 0 for none

\* the operators the next apply will solve with: the cached ones, or those
\* the first evaluation of ctx.matrices will build
MatricesInUse ==
    IF cache.hasMatrices THEN cache.matrices ELSE assembled[opVersion + 1].matrices

\* the residuals handed to apply are multiples of this
PatchUnit ==
    IF cache.hasMatrices THEN assembled[hist.matricesVersion + 1].unit
    ELSE assembled[opVersion + 1].unit

Garbage(len) == [k \in 1..len |-> 7]

\* the Halo on a communicator of the given size, no exchange begun, and the
\* module's _MPI_types = {} (halo.py line 8)
HaloOn(size) == [size |-> size, exchanging |-> FALSE, types |-> {}]

NoWk ==
    [phase |-> "off", pc |-> [w \in 1..MaxWorkers |-> "idle"],
     patch |-> [w \in 1..MaxWorkers |-> 0], todo |-> {},
     pos |-> [w \in 1..MaxWorkers |-> 0],
     serial |-> TRUE, mixed |-> FALSE]

\* what compile_form gives for a form of cell integrals on one space with
\* no coefficients: one kernel
PlainForm ==
    <<[indices |-> <<0, 0>>, integral_type |-> "cell", oriented |-> FALSE,
       coefficient_map |-> <<>>]>>

\* no call of halo.py runs, no datatype is held
NoCall == [fn |-> "", halo |-> 0, dat |-> 0, was |-> FALSE]
NoEntry == [key |-> <<>>, typ |-> <<>>, via |-> 0]

\* halo.py imported with the given Halos and dats and nothing of it called:
\* _MPI_types = {} (line 8)
MpiWith(halos, dats) ==
    [types |-> {},        \* _MPI_types: per key the datatype, and the Halo that stored it
     created |-> <<>>,    \* the keys Create_contiguous was called for, in order
     halos |-> halos,     \* per Halo the size of its communicator
     dats |-> dats,       \* per dat its dtype.char, cdim, write flag and exchange begun
     pc |-> "idle",       \* the statement about to run
     call |-> NoCall,     \* the call that runs: function, Halo, dat, the flag at entry
     mtype |-> NoEntry,   \* the local mtype
     raised |-> ""]

NoMpi == MpiWith(<<>>, <<>>)

\* no solve runs
NoRun == [pc |-> "idle", solver |-> 0, applied |-> <<>>, used |-> <<>>,
          solved |-> FALSE, raised |-> ""]

\* variational_solver.py imported: NonlinearVariationalSolver._id = 0
\* (line 60), no solver made, nothing of them in the options database
NoSnes ==
    [id |-> 0,           \* NonlinearVariationalSolver._id
     solvers |-> <<>>,   \* the solvers made, in the order of their construction
     options |-> {},     \* the names set in the PETSc options database
     run |-> NoRun]      \* the call of solve that runs

\* nothing outside the preconditioner is in use, the form is a plain one
ElsewhereIdle ==
    /\ form = PlainForm
    /\ mpi = NoMpi
    /\ snes = NoSnes

\* the form data version whose form has no zero-order term (a Poisson form)
PoissonVersion == 0 - 1

\* the state after construction for one of the problems prs, the form data
\* at version first
InitFrom(prs, first) ==
    /\ \E pr \in prs : ctx = SubspaceCorrectionPrecInit(pr)
    /\ assembled = [v \in (first + 1)..(MaxVersion + 1) |-> Assemble(ctx, v - 1)]
    /\ opVersion = first
    /\ cache = NoCache
    /\ ksp = NoKsp
    /\ pcA = "idle"
    /\ i = 0
    /\ x = ZeroVec(VecLen(ctx))
    /\ y \in {ZeroVec(VecLen(ctx)), Garbage(VecLen(ctx))}
    /\ b = <<>>
    /\ ly = <<>>
    /\ tmp_ys = <<>>
    /\ raised = ""
    /\ hist = [HistInit EXCEPT !.factorizations = [q \in 1..NumPatches(ctx) |-> 0]]
    /\ lo = NoLo
    /\ work1 = <<>>
    /\ work2 = <<>>
    /\ pcB = "idle"
    /\ xc = ZeroVec(VecLen(ctx))
    /\ yc \in {ZeroVec(VecLen(ctx)), Garbage(VecLen(ctx))}
    /\ pcC = "idle"
    /\ wk = NoWk
    /\ obj = [pc |-> "done", raised |-> "", bound |-> TRUE]
    /\ ElsewhereIdle

InitOf(prs) == InitFrom(prs, 0)

InitCore == InitOf(Problems)

\* a run on one process
InitCommon == InitCore /\ halo = HaloOn(1)

InitPatch == InitCommon /\ yc = ZeroVec(VecLen(ctx))

\* ------------------------------------- SubspaceCorrectionPrec.__init__
\* The constructor statement by statement.  Before the call there is no
\* object; the caller's name is bound to the object when __init__ returns
\* and stays unbound when it raises.
NoCtx == [ncells |-> 0]

\* the spaces a form can be given on: scalar, vector-valued (dim 2) and
\* tensor-valued (shape (1, 1) on the interval)
ConstructShapes == Shapes \cup {<<2, 1>>}

ConstructArgs ==
    {[ncells |-> MaxCells, degree |-> 1, rank |-> sh[1], dim |-> sh[2], bcs |-> bi] :
        sh \in ConstructShapes, bi \in BcInputs}

constructLeaves ==
    <<elsewhere, assembled, opVersion, cache, ksp, pcA, i, x, y, b, ly, tmp_ys, raised, hist, lo,
      work1, work2, pcB, xc, yc, pcC, halo, wk>>

\* lines 35-41: self.a, self.mesh, self.V
ConstructEnter ==
    /\ obj.pc = "none"
    /\ \E pr \in ConstructArgs :
          /\ ctx' = [ncells |-> pr.ncells, degree |-> pr.degree, rank |-> pr.rank,
                     dim |-> pr.dim]
          /\ obj' = [pc |-> "P1", args |-> pr, raised |-> "", bound |-> FALSE]
    /\ UNCHANGED constructLeaves

\* a constructor that takes a space of any rank
ConstructP1Unchecked ==
    /\ obj.pc = "P1"
    /\ obj' = [obj EXCEPT !.pc = "bcs"]
    /\ UNCHANGED <<ctx, constructLeaves>>

\* lines 42-49: self.P1 for rank 0 and rank 1, else raise NotImplementedError
ConstructP1 ==
    /\ obj.pc = "P1"
    /\ IF ctx.rank \in {0, 1}
       THEN obj' = [obj EXCEPT !.pc = "bcs"]
       ELSE obj' = [obj EXCEPT !.pc = "raised", !.raised = "NotImplementedError"]
    /\ UNCHANGED <<ctx, constructLeaves>>

\* lines 51-60: self.bcs, and the boundary nodes; numpy.concatenate raises
\* ValueError when it is handed no array, which is when bcs is an iterable
\* of no condition
ConstructBcs ==
    /\ obj.pc = "bcs"
    /\ ctx' = [ncells |-> ctx.ncells, degree |-> ctx.degree, rank |-> ctx.rank,
               dim |-> ctx.dim, bcs |-> NormalizeBcs(obj.args.bcs)]
    /\ IF obj.args.bcs.kind # "None" /\ NormalizeBcs(obj.args.bcs) = <<>>
       THEN obj' = [obj EXCEPT !.pc = "raised", !.raised = "ValueError"]
       ELSE obj' = [obj EXCEPT !.pc = "patches"]
    /\ UNCHANGED constructLeaves

\* the boundary conditions a caller can hand over: none, one condition, and
\* lists of none, one and two conditions in either order, with nodes in
\* common
BcsInputs ==
    {NoBcs, OneBc({1}), OneBc({1, 2}), ListOfBcs(<<>>), ListOfBcs(<<[sub_domain |-> {2}]>>)}
        \cup {ListOfBcs(<<[sub_domain |-> s], [sub_domain |-> t]>>) :
                 s, t \in {{1}, {2}, {1, 2}, {3}}}

BcsArgs ==
    {[ncells |-> n, degree |-> k, rank |-> sh[1], dim |-> sh[2], bcs |-> bi] :
        n \in 2..MaxCells, k \in Degrees, sh \in ConstructShapes, bi \in BcsInputs}

\* lines 35-41 for one of BcsArgs
BcsEnter ==
    /\ obj.pc = "none"
    /\ \E pr \in BcsArgs :
          /\ ctx' = [ncells |-> pr.ncells, degree |-> pr.degree, rank |-> pr.rank,
                     dim |-> pr.dim]
          /\ obj' = [pc |-> "P1", args |-> pr, raised |-> "", bound |-> FALSE]
    /\ UNCHANGED constructLeaves

\* lines 62-72: the patches; __init__ returns and the object is the
\* caller's, with nothing of it evaluated or set up yet
ConstructPatches ==
    /\ obj.pc = "patches"
    /\ LET c == SubspaceCorrectionPrecInit(obj.args)
       IN /\ ctx' = c
          /\ assembled' = [v \in 1..(MaxVersion + 1) |-> Assemble(c, v - 1)]
          /\ x' = ZeroVec(VecLen(c))
          /\ y' = ZeroVec(VecLen(c))
          /\ xc' = ZeroVec(VecLen(c))
          /\ yc' = ZeroVec(VecLen(c))
          /\ hist' = [HistInit EXCEPT !.factorizations = [q \in 1..NumPatches(c) |-> 0]]
    /\ obj' = [obj EXCEPT !.pc = "done", !.bound = TRUE]
    /\ UNCHANGED <<elsewhere, opVersion, cache, ksp, pcA, i, b, ly, tmp_ys, raised, lo, work1, work2,
                   pcB, pcC, halo, wk>>

\* the meshes and spaces the patches are made for: up to ScenarioCells
\* cells and degree ScenarioDegree
MapperArgs ==
    {[ncells |-> n, degree |-> k, rank |-> sh[1], dim |-> sh[2], bcs |-> bi] :
        n \in 2..ScenarioCells, k \in 1..ScenarioDegree, sh \in ConstructShapes,
        bi \in BcInputs}

\* lines 35-41 for one of MapperArgs
MapperEnter ==
    /\ obj.pc = "none"
    /\ \E pr \in MapperArgs :
          /\ ctx' = [ncells |-> pr.ncells, degree |-> pr.degree, rank |-> pr.rank,
                     dim |-> pr.dim]
          /\ obj' = [pc |-> "P1", args |-> pr, raised |-> "", bound |-> FALSE]
    /\ UNCHANGED constructLeaves

\* lines 62-72: get_cell_facet_patches, get_dof_patches and the five
\* attributes they fill
MapperPatches ==
    /\ obj.pc = "patches"
    /\ ctx' = SubspaceCorrectionPrecInit(obj.args)
    /\ obj' = [obj EXCEPT !.pc = "mapped"]
    /\ UNCHANGED constructLeaves

NextMapper ==
    \/ MapperEnter
    \/ ConstructP1
    \/ ConstructBcs
    \/ MapperPatches

NextBcs ==
    \/ BcsEnter
    \/ ConstructP1
    \/ ConstructBcs
    \/ MapperPatches

NoObject ==
    /\ ctx = NoCtx
    /\ obj = [pc |-> "none", args |-> NoCtx, raised |-> "", bound |-> FALSE]
    /\ assembled = <<>>
    /\ opVersion = 0
    /\ cache = NoCache
    /\ ksp = NoKsp
    /\ pcA = "idle"
    /\ i = 0
    /\ x = <<>>
    /\ y = <<>>
    /\ b = <<>>
    /\ ly = <<>>
    /\ tmp_ys = <<>>
    /\ raised = ""
    /\ hist = HistInit
    /\ lo = NoLo
    /\ work1 = <<>>
    /\ work2 = <<>>
    /\ pcB = "idle"
    /\ xc = <<>>
    /\ yc = <<>>
    /\ pcC = "idle"
    /\ halo = HaloOn(1)
    /\ wk = NoWk

\* before the constructor is called with a plain form
InitConstruct == NoObject /\ ElsewhereIdle

\* what compile_form can give for one integral of a form: the block of a
\* mixed space it belongs to, its integral type, whether it needs cell
\* orientations, the coefficients it reads
KernelInfos ==
    [indices : {<<0, 0>>, <<0, 1>>}, integral_type : {"cell", "exterior_facet"},
     oriented : BOOLEAN, coefficient_map : {<<>>, <<0>>}]

\* forms of one integral, and forms of a plain integral and one more
Forms ==
    {<<k>> : k \in KernelInfos}
        \cup {PlainForm \o <<k>> : k \in KernelInfos \ {PlainForm[1]}}

\* before the constructor is called with one of Forms
InitKernels ==
    /\ NoObject
    /\ form \in Forms
    /\ mpi = NoMpi
    /\ snes = NoSnes

\* ------------------------------------------------------------ PatchPC
OuterPrefixes == {"", "fieldsplit_0_"}

\* PatchPC.setUp(pc)
PatchSetUp ==
    /\ pcA = "idle"
    /\ pcC = "idle"
    /\ hist.setups < MaxCalls
    /\ \E pfx \in OuterPrefixes :
          ksp' = [exists |-> TRUE, prefix |-> pfx \o "sub_", op |-> <<>>,
                  factored |-> FALSE]
    /\ raised' = ""
    /\ hist' = [hist EXCEPT !.setups = @ + 1, !.kspPatch = 0,
                            !.setupVersion = opVersion]
    /\ UNCHANGED <<outsidePatch, opVersion, cache, pcA, i, x, y, b, ly, tmp_ys>>

\* the form data change: the operator is rebuilt by the caller
Rebuild ==
    /\ pcA = "idle"
    /\ pcB = "idle"
    /\ pcC = "idle"
    /\ opVersion < MaxVersion
    /\ opVersion' = opVersion + 1
    /\ UNCHANGED <<outsidePatch, cache, ksp, pcA, i, x, y, b, ly, tmp_ys, raised, hist>>

\* PatchPC.apply(pc, x, y) is entered with the residual xin
PatchApplyEnter(xin) ==
    /\ pcA = "idle"
    /\ hist.applies < MaxCalls
    /\ x' = xin
    /\ pcA' = "set0"
    /\ raised' = ""
    /\ hist' = [hist EXCEPT !.applies = @ + 1, !.solvedWith = <<>>,
                            !.haloExchanges = 0, !.failed = 0]
    /\ UNCHANGED <<elsewhere, ctx, assembled, opVersion, cache, ksp, i, y, b, ly, tmp_ys, halo, wk, obj>>

\* the caller invokes PatchPC.apply(pc, x, y); a buffer under exchange may
\* not be touched before Halo.end, so no exchange is in flight
PatchApplyCall ==
    /\ pcC = "idle"
    /\ ~halo.exchanging
    /\ LET unit == PatchUnit
       IN \E u \in InputVecs(VecLen(ctx)) : PatchApplyEnter(Scaled(unit, u))
    /\ UNCHANGED <<elsewhere, lo, work1, work2, pcB, xc, yc, pcC>>

\* an apply that leaves in y what the caller handed over
PatchApplySkipZero ==
    /\ pcA = "set0"
    /\ pcA' = "ctx"
    /\ UNCHANGED <<outsidePatch, opVersion, cache, ksp, i, x, y, b, ly, tmp_ys, raised, hist>>

\* line 260: y.set(0)
PatchApplyZero ==
    /\ pcA = "set0"
    /\ y' = ZeroVec(Len(y))
    /\ pcA' = "ctx"
    /\ UNCHANGED <<outsidePatch, opVersion, cache, ksp, i, x, b, ly, tmp_ys, raised, hist>>

\* an apply that goes on with no handle set up
PatchApplyCtxUnchecked ==
    /\ pcA = "ctx"
    /\ tmp_ys' = <<>>
    /\ cache' = [cache EXCEPT !.matrices = MatricesInUse, !.hasMatrices = TRUE]
    /\ hist' = [hist EXCEPT
                  !.loops = @ + 1,
                  !.matricesVersion = IF cache.hasMatrices THEN @ ELSE opVersion]
    /\ i' = 1
    /\ pcA' = "reset"
    /\ UNCHANGED <<outsidePatch, opVersion, ksp, x, y, b, ly, raised>>

\* lines 99-103: the four asserts on one kernel of the form, in their
\* order; what the first that fails raises, "" if none does
KernelAsserts(k) ==
    IF k.indices # <<0, 0>> THEN "AssertionError"
    ELSE IF k.integral_type # "cell" THEN "AssertionError"
    ELSE IF k.oriented THEN "AssertionError"
    ELSE IF Len(k.coefficient_map) # 0 THEN "AssertionError"
    ELSE ""

\* lines 93-108: the cached property kernels, the loop over the kernels of
\* the form; what its evaluation raises, "" if it returns the kernels
kernels(a) ==
    LET failing == {j \in 1..Len(a) : KernelAsserts(a[j]) # ""}
    IN IF failing = {} THEN ""
       ELSE KernelAsserts(a[CHOOSE j \in failing : \A l \in failing : j <= l])

\* lines 262-265: tmp_ys = [], ctx = self.ctx (an AttributeError before
\* setUp), and the first evaluation of ctx.matrices builds and caches them;
\* building them evaluates matrix_callable and through it kernels, whose
\* asserts end the apply
PatchApplyCtx ==
    /\ pcA = "ctx"
    /\ tmp_ys' = <<>>
    /\ IF ~ksp.exists
       THEN /\ raised' = "AttributeError"
            /\ pcA' = "idle"
            /\ UNCHANGED <<cache, i, hist>>
       ELSE IF ~cache.hasMatrices /\ kernels(form) # ""
       THEN /\ raised' = kernels(form)
            /\ pcA' = "idle"
            /\ UNCHANGED <<cache, i, hist>>
       ELSE /\ raised' = raised
            /\ cache' = [cache EXCEPT !.matrices = MatricesInUse, !.hasMatrices = TRUE]
            /\ hist' = [hist EXCEPT
                          !.loops = @ + 1,
                          !.matricesVersion = IF cache.hasMatrices THEN @ ELSE opVersion]
            /\ i' = 1
            /\ pcA' = IF NumPatches(ctx) >= 1 THEN "reset" ELSE "return"
    /\ UNCHANGED <<outsidePatch, opVersion, ksp, x, y, b, ly>>

\* an iteration that leaves the handle as the last solve left it
PatchApplyKeepHandle ==
    /\ pcA = "reset"
    /\ pcA' = "setops"
    /\ UNCHANGED <<outsidePatch, opVersion, cache, ksp, i, x, y, b, ly, tmp_ys, raised, hist>>

\* line 266: self.ksp.reset() drops the operators and the factorization
PatchApplyReset ==
    /\ pcA = "reset"
    /\ ksp' = [ksp EXCEPT !.op = <<>>, !.factored = FALSE]
    /\ hist' = [hist EXCEPT !.kspPatch = 0]
    /\ pcA' = "setops"
    /\ UNCHANGED <<outsidePatch, opVersion, cache, i, x, y, b, ly, tmp_ys, raised>>

\* an iteration that hands the handle the operator of the first patch
PatchApplySetFirstOperator ==
    /\ pcA = "setops"
    /\ ksp' = [ksp EXCEPT !.op = cache.matrices[1],
                          !.factored = @ /\ ksp.op = cache.matrices[1]]
    /\ hist' = [hist EXCEPT !.kspPatch = 1]
    /\ pcA' = "gather"
    /\ UNCHANGED <<outsidePatch, opVersion, cache, i, x, y, b, ly, tmp_ys, raised>>

\* line 267: self.ksp.setOperators(m, m); a factorization the handle holds
\* is kept only for the operator it was made of
PatchApplySetOperators ==
    /\ pcA = "setops"
    /\ ksp' = [ksp EXCEPT !.op = cache.matrices[i],
                          !.factored = @ /\ ksp.op = cache.matrices[i]]
    /\ hist' = [hist EXCEPT !.kspPatch = i]
    /\ pcA' = "gather"
    /\ UNCHANGED <<outsidePatch, opVersion, cache, i, x, y, b, ly, tmp_ys, raised>>

\* b.array.reshape(-1, bsize)[:] = x.array_r.reshape(-1, bsize)[patch_dofs]
GatherRhs(xx, patch_dofs, bsize) ==
    [k \in 1..(Len(patch_dofs) * bsize) |->
        xx[patch_dofs[((k - 1) \div bsize) + 1] * bsize + ((k - 1) % bsize) + 1]]

\* a right-hand side whose boundary-fixed entries are kept
KeepBcRows(bb, bc_dofs, bsize) == bb

\* b.array.reshape(-1, bsize)[bc_dofs] = 0
ZeroBcRows(bb, bc_dofs, bsize) ==
    [k \in 1..Len(bb) |-> IF ((k - 1) \div bsize) \in Range(bc_dofs) THEN 0 ELSE bb[k]]

\* lines 268-274: the local vectors, zeroed, and the gathered right-hand side
LocalRhs(c, xx, p) == ZeroBcRows(GatherRhs(xx, PatchDofs(c, p), c.dim), BcDofs(c, p), c.dim)

\* a gather that zeroes the boundary-fixed entries in the residual itself
PatchApplyGatherInPlace ==
    /\ pcA = "gather"
    /\ ly' = ZeroVec(Len(cache.matrices[i]))
    /\ b' = LocalRhs(ctx, x, i)
    /\ x' = [k \in 1..Len(x) |->
               IF LocalOf(ctx, i, (k - 1) \div ctx.dim) \in Range(BcDofs(ctx, i))
               THEN 0 ELSE x[k]]
    /\ pcA' = "solve"
    /\ UNCHANGED <<outsidePatch, opVersion, cache, ksp, i, y, tmp_ys, raised, hist>>

PatchApplyGather ==
    /\ pcA = "gather"
    /\ ly' = ZeroVec(Len(cache.matrices[i]))
    /\ b' = LocalRhs(ctx, x, i)
    /\ pcA' = "solve"
    /\ UNCHANGED <<outsidePatch, opVersion, cache, ksp, i, x, y, tmp_ys, raised, hist>>

\* KSP.solve(b, ly) with a PREONLY handle: the operator is factorized when
\* the handle holds no factorization, then solved with
KspSolve(handle, rhs) == DirectSolve(handle.op, rhs)

\* a solve step that passes over a patch with no free dof: nothing is
\* factorized or solved, the local solution stays zero
PatchApplySolveSkipFixed ==
    /\ pcA = "solve"
    /\ IF Degenerate(ctx, i)
       THEN /\ tmp_ys' = Append(tmp_ys, ly)
            /\ UNCHANGED <<ly, ksp, hist>>
       ELSE /\ \E sol \in {KspSolve(ksp, b)} :
                  /\ ly' = sol
                  /\ tmp_ys' = Append(tmp_ys, sol)
            /\ ksp' = [ksp EXCEPT !.factored = TRUE]
            /\ hist' = [hist EXCEPT
                          !.factorizations[i] = IF ksp.factored THEN @ ELSE @ + 1,
                          !.solvedWith = Append(@, hist.kspPatch)]
    /\ IF i < Len(cache.matrices)
       THEN i' = i + 1 /\ pcA' = "reset"
       ELSE i' = 1 /\ pcA' = "scatter"
    /\ UNCHANGED <<outsidePatch, opVersion, cache, x, y, b, raised>>

\* what self.ksp.solve does with a singular operator depends on the PETSc
\* build: the factorization raises a PETSc error, which leaves apply, or it
\* goes through on a zero pivot and the solve returns a vector of no meaning
SolveFailures == {"PETSc.Error", "no error"}

\* lines 275-276: self.ksp.solve(b, ly); tmp_ys.append(ly)
PatchApplySolve ==
    /\ pcA = "solve"
    /\ IF Det(ksp.op) = 0
       THEN \E outcome \in SolveFailures :
               /\ hist' = [hist EXCEPT !.failed = i]
               /\ IF outcome = "PETSc.Error"
                  THEN /\ raised' = outcome
                       /\ pcA' = "idle"
                       /\ UNCHANGED <<elsewhere, ly, tmp_ys, ksp, i>>
                  ELSE /\ raised' = raised
                       /\ ly' = Garbage(Len(b))
                       /\ tmp_ys' = Append(tmp_ys, Garbage(Len(b)))
                       /\ ksp' = [ksp EXCEPT !.factored = TRUE]
                       /\ IF i < Len(cache.matrices)
                          THEN i' = i + 1 /\ pcA' = "reset"
                          ELSE i' = 1 /\ pcA' = "scatter"
       ELSE /\ \E sol \in {KspSolve(ksp, b)} :
                  /\ ly' = sol
                  /\ tmp_ys' = Append(tmp_ys, sol)
            /\ ksp' = [ksp EXCEPT !.factored = TRUE]
            /\ hist' = [hist EXCEPT
                          !.factorizations[i] = IF ksp.factored THEN @ ELSE @ + 1,
                          !.solvedWith = Append(@, hist.kspPatch)]
            /\ IF i < Len(cache.matrices)
               THEN i' = i + 1 /\ pcA' = "reset"
               ELSE i' = 1 /\ pcA' = "scatter"
            /\ raised' = raised
    /\ UNCHANGED <<outsidePatch, opVersion, cache, x, y, b>>

\* the problems with a Poisson form: on two cells with no boundary
\* condition the one patch has no fixed dof and its operator is singular
SingularProblems ==
    {[ncells |-> n, degree |-> 1, rank |-> sh[1], dim |-> sh[2], bcs |-> bi] :
        n \in 2..MaxCells, sh \in Shapes, bi \in {NoBcs, OneBc({1})}}

InitSingular ==
    /\ InitFrom(SingularProblems, PoissonVersion)
    /\ halo = HaloOn(1)
    /\ yc = ZeroVec(VecLen(ctx))

\* PatchPC on the problems with a fully boundary-fixed patch
InitMarked ==
    /\ InitOf(MarkedProblems)
    /\ halo = HaloOn(1)
    /\ yc = ZeroVec(VecLen(ctx))

\* a scatter that assigns where the program adds
ScatterAssign(yy, patch_dofs, bsize, sol) ==
    [k \in 1..Len(yy) |->
        LET d == (k - 1) \div bsize
            l == IndexOf(patch_dofs, d)
        IN IF l = 0 THEN yy[k] ELSE sol[(l - 1) * bsize + ((k - 1) % bsize) + 1]]

\* y.array.reshape(-1, bsize)[patch_dofs] += ly.array_r.reshape(-1, bsize)[:]
\* numpy reads y at patch_dofs, adds, and writes the sums back at patch_dofs
ScatterAdd(yy, patch_dofs, bsize, sol) ==
    [k \in 1..Len(yy) |->
        LET d == (k - 1) \div bsize
            l == IndexOf(patch_dofs, d)
        IN IF l = 0 THEN yy[k] ELSE yy[k] + sol[(l - 1) * bsize + ((k - 1) % bsize) + 1]]

\* lines 278-280, one pass of the second loop
PatchApplyScatter ==
    /\ pcA = "scatter"
    /\ y' = ScatterAdd(y, PatchDofs(ctx, i), ctx.dim, tmp_ys[i])
    /\ IF i < Len(tmp_ys)
       THEN i' = i + 1 /\ pcA' = "scatter"
       ELSE i' = i /\ pcA' = "return"
    /\ UNCHANGED <<outsidePatch, opVersion, cache, ksp, x, b, ly, tmp_ys, raised, hist>>

\* apply returns to the caller: its local names (i, b, ly, tmp_ys) are gone
PatchApplyReturn ==
    /\ pcA = "return"
    /\ pcA' = "idle"
    /\ i' = 0
    /\ b' = <<>>
    /\ ly' = <<>>
    /\ tmp_ys' = <<>>
    /\ UNCHANGED <<outsidePatch, opVersion, cache, ksp, x, y, raised, hist>>

\* ------------------------------------------- PatchPC.apply on workers
\* The iterations of the two loops of PatchPC.apply handed to workers: an
\* iteration of the first loop (lines 266-276) is taken by a worker and run
\* statement by statement on the shared self.ksp and the shared list tmp_ys;
\* an iteration of the second loop (line 280) adds its entries to the shared
\* y one atomic add at a time.  The statements before the loops (lines
\* 260-264) run on the caller's thread.
Workers == 1..MaxWorkers

Min(S) == CHOOSE e \in S : \A f \in S : e <= f

\* the caller invokes apply: lines 260-264, then the first loop is open
ParApplyCall ==
    /\ pcA = "idle"
    /\ pcC = "idle"
    /\ wk.phase = "off"
    /\ hist.applies < MaxCalls
    /\ LET unit == PatchUnit
       IN \E u \in InputVecs(VecLen(ctx)) : x' = Scaled(unit, u)
    /\ y' = ZeroVec(Len(y))
    /\ tmp_ys' = <<>>
    /\ IF ~ksp.exists
       THEN /\ raised' = "AttributeError"
            /\ UNCHANGED <<elsewhere, cache, pcA, wk>>
            /\ hist' = [hist EXCEPT !.applies = @ + 1, !.solvedWith = <<>>,
                                    !.haloExchanges = 0, !.failed = 0]
       ELSE /\ raised' = ""
            /\ cache' = [cache EXCEPT !.matrices = MatricesInUse, !.hasMatrices = TRUE]
            /\ hist' = [hist EXCEPT
                          !.applies = @ + 1, !.solvedWith = <<>>, !.haloExchanges = 0,
                          !.failed = 0,
                          !.loops = @ + 1,
                          !.matricesVersion = IF cache.hasMatrices THEN @ ELSE opVersion]
            /\ pcA' = "par"
            /\ wk' = [NoWk EXCEPT !.phase = "solve", !.todo = 1..NumPatches(ctx)]
    /\ UNCHANGED <<outsideWorkers, opVersion, ksp, i, b, ly>>

\* worker w takes iteration p of the first loop
ParTake(w, p) ==
    /\ wk.phase = "solve"
    /\ wk.pc[w] = "idle"
    /\ p \in wk.todo
    /\ wk' = [wk EXCEPT !.pc[w] = "reset", !.patch[w] = p, !.todo = @ \ {p},
                        !.serial = @ /\ p = Min(wk.todo)
                                     /\ \A v \in Workers : wk.pc[v] = "idle"]
    /\ UNCHANGED <<outsideWorkers, opVersion, cache, ksp, pcA, i, x, y, b, ly,
                   tmp_ys, raised, hist>>

\* line 266 on worker w: self.ksp.reset()
ParReset(w) ==
    /\ wk.pc[w] = "reset"
    /\ ksp' = [ksp EXCEPT !.op = <<>>, !.factored = FALSE]
    /\ hist' = [hist EXCEPT !.kspPatch = 0]
    /\ wk' = [wk EXCEPT !.pc[w] = "setops"]
    /\ UNCHANGED <<outsideWorkers, opVersion, cache, pcA, i, x, y, b, ly, tmp_ys,
                   raised>>

\* line 267 on worker w: self.ksp.setOperators(m, m)
ParSetOperators(w) ==
    /\ wk.pc[w] = "setops"
    /\ ksp' = [ksp EXCEPT !.op = cache.matrices[wk.patch[w]],
                          !.factored = @ /\ ksp.op = cache.matrices[wk.patch[w]]]
    /\ hist' = [hist EXCEPT !.kspPatch = wk.patch[w]]
    /\ wk' = [wk EXCEPT !.pc[w] = "solve"]
    /\ UNCHANGED <<outsideWorkers, opVersion, cache, pcA, i, x, y, b, ly, tmp_ys,
                   raised>>

\* lines 268-276 on worker w: the local vectors of the iteration, the solve
\* on the shared handle as it is now, and the append to the shared list; a
\* handle another worker has just reset holds no operator, one another
\* worker has given its operator may not fit b, and then the solve fails,
\* which ends the apply
ParSolve(w) ==
    /\ wk.pc[w] = "solve"
    /\ IF ksp.op = <<>> \/ Len(ksp.op) # Len(LocalRhs(ctx, x, wk.patch[w]))
       THEN /\ raised' = "PETSc.Error"
            /\ pcA' = "idle"
            /\ wk' = NoWk
            /\ UNCHANGED <<elsewhere, ksp, tmp_ys, hist>>
       ELSE /\ tmp_ys' = Append(tmp_ys, KspSolve(ksp, LocalRhs(ctx, x, wk.patch[w])))
            /\ ksp' = [ksp EXCEPT !.factored = TRUE]
            /\ hist' = [hist EXCEPT
                          !.factorizations[wk.patch[w]] = IF ksp.factored THEN @ ELSE @ + 1,
                          !.solvedWith = Append(@, hist.kspPatch)]
            /\ wk' = [wk EXCEPT !.pc[w] = "idle", !.patch[w] = 0]
            /\ UNCHANGED <<elsewhere, raised, pcA>>
    /\ UNCHANGED <<outsideWorkers, opVersion, cache, i, x, y, b, ly>>

\* the first loop has ended: the second loop is open
ParBeginScatter ==
    /\ wk.phase = "solve"
    /\ wk.todo = {}
    /\ \A w \in Workers : wk.pc[w] = "idle"
    /\ wk' = [wk EXCEPT !.phase = "scatter", !.todo = 1..Len(tmp_ys)]
    /\ UNCHANGED <<outsideWorkers, opVersion, cache, ksp, pcA, i, x, y, b, ly,
                   tmp_ys, raised, hist>>

\* worker w takes iteration p of the second loop
ParTakeScatter(w, p) ==
    /\ wk.phase = "scatter"
    /\ wk.pc[w] = "idle"
    /\ p \in wk.todo
    /\ wk' = [wk EXCEPT !.pc[w] = "add", !.patch[w] = p, !.pos[w] = 0, !.todo = @ \ {p}]
    /\ UNCHANGED <<outsideWorkers, opVersion, cache, ksp, pcA, i, x, y, b, ly,
                   tmp_ys, raised, hist>>

\* an add that overwrites the entry
AtomicAssign(yy, k, v) == [yy EXCEPT ![k] = v]

\* one entry of line 280's +=, done as an atomic add
AtomicAdd(yy, k, v) == [yy EXCEPT ![k] = @ + v]

\* the global entry that entry e (from 1) of the local vector of patch p
\* belongs to
GlobalEntry(c, p, e) ==
    PatchDofs(c, p)[((e - 1) \div c.dim) + 1] * c.dim + ((e - 1) % c.dim) + 1

\* line 280 on worker w: the next entry of its iteration is added to y
ParScatterEntry(w) ==
    /\ wk.pc[w] = "add"
    /\ LET p == wk.patch[w]
           e == wk.pos[w] + 1
       IN /\ y' = AtomicAdd(y, GlobalEntry(ctx, p, e), tmp_ys[p][e])
          /\ wk' = [wk EXCEPT !.pos[w] = IF e = Len(tmp_ys[p]) THEN 0 ELSE e,
                              !.patch[w] = IF e = Len(tmp_ys[p]) THEN 0 ELSE p,
                              !.pc[w] = IF e = Len(tmp_ys[p]) THEN "idle" ELSE "add",
                              !.mixed = @ \/ \E v \in Workers :
                                                v # w /\ wk.pc[v] = "add" /\ wk.pos[v] > 0]
    /\ UNCHANGED <<outsideWorkers, opVersion, cache, ksp, pcA, i, x, b, ly, tmp_ys,
                   raised, hist>>

\* the second loop has ended: apply is about to return
ParEnd ==
    /\ wk.phase = "scatter"
    /\ wk.todo = {}
    /\ \A w \in Workers : wk.pc[w] = "idle"
    /\ wk' = [wk EXCEPT !.phase = "off"]
    /\ pcA' = "return"
    /\ UNCHANGED <<outsideWorkers, opVersion, cache, ksp, i, x, y, b, ly, tmp_ys,
                   raised, hist>>

NextPar ==
    \/ PatchSetUp
    \/ ParApplyCall
    \/ \E w \in Workers : \E p \in 1..NumPatches(ctx) : ParTake(w, p)
    \/ \E w \in Workers : ParReset(w)
    \/ \E w \in Workers : ParSetOperators(w)
    \/ \E w \in Workers : ParSolve(w)
    \/ ParBeginScatter
    \/ \E w \in Workers : \E p \in 1..NumPatches(ctx) : ParTakeScatter(w, p)
    \/ \E w \in Workers : ParScatterEntry(w)
    \/ ParEnd
    \/ PatchApplyReturn

SpecPar == InitPatch /\ [][NextPar]_vars

\* ---------------------------------------------------------------- Halo
\* _get_mtype(dat): the key of the dat's datatype, memoised in _MPI_types
MTypeKey(c) == <<"float64", c.dim>>

\* Halo.begin(dat) on the dat of y, called by the code that owns y between
\* applies; returns at once on one process
HaloBegin ==
    /\ pcA = "idle"
    /\ ~halo.exchanging
    /\ hist.haloExchanges < MaxCalls
    /\ halo' = IF halo.size = 1 THEN halo
               ELSE [halo EXCEPT !.exchanging = TRUE,
                                 !.types = @ \cup {MTypeKey(ctx)}]
    /\ UNCHANGED <<elsewhere, ctx, assembled, opVersion, cache, ksp, pcA, i, x, y, b, ly, tmp_ys,
                   raised, hist, lo, work1, work2, pcB, xc, yc, pcC, wk, obj>>

\* Halo.end(dat): the exchange completes; returns at once on one process
HaloEnd ==
    /\ pcA = "idle"
    /\ halo.size > 1
    /\ halo.exchanging
    /\ halo' = [halo EXCEPT !.exchanging = FALSE, !.types = @ \cup {MTypeKey(ctx)}]
    /\ hist' = [hist EXCEPT !.haloExchanges = @ + 1]
    /\ UNCHANGED <<elsewhere, ctx, assembled, opVersion, cache, ksp, pcA, i, x, y, b, ly, tmp_ys,
                   raised, lo, work1, work2, pcB, xc, yc, pcC, wk, obj>>

\* ----------------------------------------------- halo.py, by statement
\* MPI.__TypeDict__: the base datatype of a dtype.char
TypeDict == ("d" :> "MPI_DOUBLE") @@ ("i" :> "MPI_INT")

\* the dats of the model: float64 with cdim 1 and 2, int32 with cdim 2, and
\* a dtype that has no MPI base type
DatShapes == <<<<"d", 1>>, <<"d", 2>>, <<"i", 2>>, <<"O", 2>>>>

\* the datatypes made so far are capped in the guards of the calls
MaxCreated == 3

InitMpi ==
    \E sizes \in [1..2 -> 1..MaxProcs] : \E flags \in [1..Len(DatShapes) -> BOOLEAN] :
        mpi = MpiWith([h \in 1..2 |-> [size |-> sizes[h]]],
                      [d \in 1..Len(DatShapes) |->
                          [dtype |-> DatShapes[d][1], cdim |-> DatShapes[d][2],
                           write |-> flags[d], begun |-> 0]])

Stored_mtype(types, key) == CHOOSE e \in types : e.key = key

\* a lookup that never finds the key
get_mtype_unmemoised(m, dat, via) ==
    LET key == <<dat.dtype, dat.cdim>>
    IN IF dat.dtype \notin DOMAIN TypeDict
       THEN [types |-> m.types, created |-> m.created, ret |-> NoEntry,
             raised |-> "RuntimeError"]
       ELSE LET btype == TypeDict[dat.dtype]
                typ == IF dat.cdim = 1 THEN <<btype>>
                       ELSE <<btype, dat.cdim, Len(m.created) + 1>>
                entry == [key |-> key, typ |-> typ, via |-> via]
            IN [types |-> {e \in m.types : e.key # key} \cup {entry},
                created |-> IF dat.cdim = 1 THEN m.created ELSE Append(m.created, key),
                ret |-> entry, raised |-> ""]

\* _get_mtype(dat), lines 11-34, called through Halo via (0: called by
\* itself): the stored datatype of the key (dtype, cdim), or the base type
\* for cdim 1 and else a new committed contiguous type <<base, cdim, handle>>,
\* stored under the key; RuntimeError for a dtype with no base type
get_mtype(m, dat, via) ==
    LET key == <<dat.dtype, dat.cdim>>
    IN IF \E e \in m.types : e.key = key
       THEN [types |-> m.types, created |-> m.created,
             ret |-> Stored_mtype(m.types, key), raised |-> ""]
       ELSE IF dat.dtype \notin DOMAIN TypeDict
       THEN [types |-> m.types, created |-> m.created, ret |-> NoEntry,
             raised |-> "RuntimeError"]
       ELSE LET btype == TypeDict[dat.dtype]
                typ == IF dat.cdim = 1 THEN <<btype>>
                       ELSE <<btype, dat.cdim, Len(m.created) + 1>>
                entry == [key |-> key, typ |-> typ, via |-> via]
            IN [types |-> m.types \cup {entry},
                created |-> IF dat.cdim = 1 THEN m.created ELSE Append(m.created, key),
                ret |-> entry, raised |-> ""]

outsideHalo ==
    <<ctx, assembled, opVersion, cache, ksp, pcA, i, x, y, b, ly, tmp_ys, raised, hist,
      lo, work1, work2, pcB, xc, yc, pcC, halo, wk, obj, form, snes>>

\* some code calls _get_mtype(dat)
GetMtypeCall ==
    /\ mpi.pc = "idle"
    /\ Len(mpi.created) < MaxCreated
    /\ \E d \in 1..Len(mpi.dats) :
          LET r == get_mtype(mpi, mpi.dats[d], 0)
          IN mpi' = [mpi EXCEPT !.types = r.types, !.created = r.created,
                                !.mtype = r.ret, !.raised = r.raised,
                                !.call = [fn |-> "_get_mtype", halo |-> 0, dat |-> d,
                                          was |-> mpi.dats[d].write],
                                !.pc = "got"]
    /\ UNCHANGED outsideHalo

\* the caller of _get_mtype drops what it was handed
GetMtypeReturn ==
    /\ mpi.pc = "got"
    /\ mpi' = [mpi EXCEPT !.pc = "idle", !.call = NoCall, !.mtype = NoEntry]
    /\ UNCHANGED outsideHalo

\* Halo.begin(dat) is called on Halo h for a dat with no exchange begun
HaloBeginCall ==
    /\ mpi.pc = "idle"
    /\ Len(mpi.created) < MaxCreated
    /\ \E h \in 1..Len(mpi.halos) : \E d \in 1..Len(mpi.dats) :
          /\ mpi.dats[d].begun = 0
          /\ mpi' = [mpi EXCEPT !.pc = "begin", !.raised = "",
                                !.call = [fn |-> "begin", halo |-> h, dat |-> d,
                                          was |-> mpi.dats[d].write]]
    /\ UNCHANGED outsideHalo

\* lines 73-75: return on one process, else mtype = _get_mtype(dat)
HaloBeginMtype ==
    /\ mpi.pc = "begin"
    /\ IF mpi.halos[mpi.call.halo].size = 1
       THEN mpi' = [mpi EXCEPT !.pc = "idle", !.call = NoCall]
       ELSE LET r == get_mtype(mpi, mpi.dats[mpi.call.dat], mpi.call.halo)
            IN mpi' = [mpi EXCEPT !.types = r.types, !.created = r.created,
                                  !.mtype = r.ret, !.raised = r.raised,
                                  !.pc = IF r.raised = "" THEN "halo_begin" ELSE "idle",
                                  !.call = IF r.raised = "" THEN @ ELSE NoCall]
    /\ UNCHANGED outsideHalo

\* line 76: dmplex.halo_begin(self.sf, dat, mtype, reverse), and return
HaloBeginExchange ==
    /\ mpi.pc = "halo_begin"
    /\ mpi' = [mpi EXCEPT !.dats[mpi.call.dat].begun = mpi.call.halo,
                          !.pc = "idle", !.call = NoCall, !.mtype = NoEntry]
    /\ UNCHANGED outsideHalo

\* Halo.end(dat) is called on Halo h: after the begin on h, or on one
\* process, where begin has begun nothing
HaloEndCall ==
    /\ mpi.pc = "idle"
    /\ Len(mpi.created) < MaxCreated
    /\ \E h \in 1..Len(mpi.halos) : \E d \in 1..Len(mpi.dats) :
          /\ mpi.dats[d].begun = (IF mpi.halos[h].size = 1 THEN 0 ELSE h)
          /\ mpi' = [mpi EXCEPT !.pc = "end", !.raised = "",
                                !.call = [fn |-> "end", halo |-> h, dat |-> d,
                                          was |-> mpi.dats[d].write]]
    /\ UNCHANGED outsideHalo

\* lines 85-87: return on one process, else mtype = _get_mtype(dat)
HaloEndMtype ==
    /\ mpi.pc = "end"
    /\ IF mpi.halos[mpi.call.halo].size = 1
       THEN mpi' = [mpi EXCEPT !.pc = "idle", !.call = NoCall]
       ELSE LET r == get_mtype(mpi, mpi.dats[mpi.call.dat], mpi.call.halo)
            IN mpi' = [mpi EXCEPT !.types = r.types, !.created = r.created,
                                  !.mtype = r.ret, !.raised = r.raised,
                                  !.pc = IF r.raised = "" THEN "setflags" ELSE "idle",
                                  !.call = IF r.raised = "" THEN @ ELSE NoCall]
    /\ UNCHANGED outsideHalo

\* line 88: maybe_setflags(dat._data, write=True)
HaloEndWritable ==
    /\ mpi.pc = "setflags"
    /\ mpi' = [mpi EXCEPT !.dats[mpi.call.dat].write = TRUE, !.pc = "halo_end"]
    /\ UNCHANGED outsideHalo

\* line 89: dmplex.halo_end(self.sf, dat, mtype, reverse)
HaloEndExchange ==
    /\ mpi.pc = "halo_end"
    /\ mpi' = [mpi EXCEPT !.dats[mpi.call.dat].begun = 0, !.pc = "unsetflags"]
    /\ UNCHANGED outsideHalo

\* an end that returns with the flag as the exchange left it
HaloEndKeepFlag ==
    /\ mpi.pc = "unsetflags"
    /\ mpi' = [mpi EXCEPT !.pc = "returned"]
    /\ UNCHANGED outsideHalo

\* line 90: maybe_setflags(dat._data, write=False)
HaloEndReadOnly ==
    /\ mpi.pc = "unsetflags"
    /\ mpi' = [mpi EXCEPT !.dats[mpi.call.dat].write = FALSE, !.pc = "returned"]
    /\ UNCHANGED outsideHalo

\* end returns to its caller
HaloEndReturn ==
    /\ mpi.pc = "returned"
    /\ mpi' = [mpi EXCEPT !.pc = "idle", !.call = NoCall, !.mtype = NoEntry]
    /\ UNCHANGED outsideHalo

NextTransport ==
    \/ GetMtypeCall
    \/ GetMtypeReturn
    \/ HaloBeginCall
    \/ HaloBeginMtype
    \/ HaloBeginExchange
    \/ HaloEndCall
    \/ HaloEndMtype
    \/ HaloEndWritable
    \/ HaloEndExchange
    \/ HaloEndReadOnly
    \/ HaloEndReturn

\* two Halos and the dats, each Halo on 1..MaxProcs processes
InitTransport ==
    /\ NoObject
    /\ form = PlainForm
    /\ snes = NoSnes
    /\ InitMpi

SpecTransport == InitTransport /\ [][NextTransport]_vars

\* ------------------------------------------------- variational_solver.py
\* the solvers made and the calls of __del__ on one solver are capped in
\* the guards
MaxSolvers == 2
MaxDels == 2

\* the boundary conditions of the problems of the model
MaxBcs == 2

\* a parameters dict: a function from option names to values
EmptyDict == [k \in {} |-> ""]

setdefault(d, k, v) == IF k \in DOMAIN d THEN d ELSE d @@ (k :> v)

SetItem(d, k, v) == [j \in DOMAIN d \cup {k} |-> IF j = k THEN v ELSE d[j]]

\* the solver_parameters a caller hands over: no dict, or values of its own
\* for some of the keys
GivenParameters ==
    {EmptyDict, ("snes_type" :> "newtonls"), ("ksp_rtol" :> "1e-5"),
     ("snes_type" :> "newtonls") @@ ("ksp_rtol" :> "1e-5"),
     ("pc_type" :> "lu")}

\* line 94: 'firedrake_snes_%d_' % NonlinearVariationalSolver._id
OptPrefix(id) == "firedrake_snes_" \o ToString(id) \o "_"

\* the names of a dict under a prefix
OptionNames(prefix, d) == {prefix \o k : k \in DOMAIN d}

outsideSolver ==
    <<ctx, assembled, opVersion, cache, ksp, pcA, i, x, y, b, ly, tmp_ys, raised, hist,
      lo, work1, work2, pcB, xc, yc, pcC, halo, wk, obj, form, mpi>>

\* solving_utils.update_parameters(self, self.snes), called at lines 126,
\* 141 and 196: the parameters dict is put into the options database under
\* the solver's prefix and the SNES reads it
update_parameters(sn, s) ==
    [sn EXCEPT !.options = @ \cup OptionNames(sn.solvers[s].prefix,
                                               sn.solvers[s].parameters),
               !.solvers[s].pushed = sn.solvers[s].parameters]

\* a constructor that numbers the solver by the solvers alive
SolverInitCountsAlive(linear, mixed, nbcs, given) ==
    LET alive == {s \in 1..Len(snes.solvers) : snes.solvers[s].has_opt_prefix}
        parameters == IF mixed THEN setdefault(given, "pc_type", "jacobi") ELSE given
        made == [prefix |-> OptPrefix(Cardinality(alive)), linear |-> linear,
                 nbcs |-> nbcs, given |-> given, parameters |-> parameters,
                 pushed |-> EmptyDict, has_opt_prefix |-> TRUE, dels |-> 0,
                 removals |-> 0]
        s == Len(snes.solvers) + 1
        first == update_parameters(
                    [snes EXCEPT !.id = Cardinality(alive) + 1,
                                 !.solvers = Append(@, made)], s)
    IN snes' = first

\* NonlinearVariationalSolver.__init__ (lines 62-107), and for a linear
\* solver LinearVariationalSolver.__init__ (183-196) around it: the given
\* dict with pc_type defaulted for a mixed problem, the prefix made of the
\* class counter, the counter incremented, the parameters set (which
\* updates the SNES); then for a linear solver the two defaults and one
\* more update
SolverInit(linear, mixed, nbcs, given) ==
    LET parameters == IF mixed THEN setdefault(given, "pc_type", "jacobi") ELSE given
        made == [prefix |-> OptPrefix(snes.id), linear |-> linear,
                 nbcs |-> nbcs, given |-> given, parameters |-> parameters,
                 pushed |-> EmptyDict, has_opt_prefix |-> TRUE, dels |-> 0,
                 removals |-> 0]
        s == Len(snes.solvers) + 1
        first == update_parameters(
                    [snes EXCEPT !.id = @ + 1, !.solvers = Append(@, made)], s)
        defaults == setdefault(setdefault(parameters, "snes_type", "ksponly"),
                               "ksp_rtol", "1e-7")
    IN snes' = IF linear
               THEN update_parameters([first EXCEPT !.solvers[s].parameters = defaults], s)
               ELSE first

\* a solver is constructed for a problem
SolverConstruct ==
    /\ snes.run.pc = "idle"
    /\ Len(snes.solvers) < MaxSolvers
    /\ \E linear, mixed \in BOOLEAN : \E nbcs \in {0, MaxBcs} :
          \E given \in GivenParameters : SolverInit(linear, mixed, nbcs, given)
    /\ UNCHANGED outsideSolver

\* line 83: the constructor is handed something that is no problem; the
\* assert raises before anything is made
SolverConstructRejected ==
    /\ snes.run.pc = "idle"
    /\ snes.run.raised # "AssertionError"
    /\ snes' = [snes EXCEPT !.run.raised = "AssertionError"]
    /\ UNCHANGED outsideSolver

\* the user changes an entry of solver.parameters between two calls
UserSetsParameter ==
    /\ snes.run.pc = "idle"
    /\ \E s \in 1..Len(snes.solvers) :
          /\ snes.solvers[s].has_opt_prefix
          /\ snes' = [snes EXCEPT !.solvers[s].parameters = SetItem(@, "ksp_rtol", "1e-9")]
          /\ snes' # snes
    /\ UNCHANGED outsideSolver

\* __del__, lines 109-116: with _opt_prefix, every key of the parameters is
\* deleted from the options database under the prefix and the attribute is
\* removed; without it nothing is done
SolverDel ==
    /\ snes.run.pc = "idle"
    /\ \E s \in 1..Len(snes.solvers) :
          /\ snes.solvers[s].dels < MaxDels
          /\ IF snes.solvers[s].has_opt_prefix
             THEN snes' = [snes EXCEPT
                     !.options = @ \ OptionNames(snes.solvers[s].prefix,
                                                 snes.solvers[s].parameters),
                     !.solvers[s].has_opt_prefix = FALSE,
                     !.solvers[s].dels = @ + 1,
                     !.solvers[s].removals =
                         @ + Cardinality(DOMAIN snes.solvers[s].parameters)]
             ELSE snes' = [snes EXCEPT !.solvers[s].dels = @ + 1]
    /\ UNCHANGED outsideSolver

\* solve is called, lines 130-133
SolveEnter ==
    /\ snes.run.pc = "idle"
    /\ \E s \in 1..Len(snes.solvers) :
          /\ snes.solvers[s].has_opt_prefix
          /\ snes' = [snes EXCEPT !.run = [NoRun EXCEPT !.pc = "bcs", !.solver = s]]
    /\ UNCHANGED outsideSolver

\* lines 136-137: the next boundary condition is applied to u, or the loop
\* has ended
SolveApplyBc ==
    /\ snes.run.pc = "bcs"
    /\ IF Len(snes.run.applied) < snes.solvers[snes.run.solver].nbcs
       THEN snes' = [snes EXCEPT !.run.applied = Append(@, Len(@) + 1)]
       ELSE snes' = [snes EXCEPT !.run.pc = "parameters"]
    /\ UNCHANGED outsideSolver

\* a solve that leaves the SNES with the parameters it has
SolveSkipParameters ==
    /\ snes.run.pc = "parameters"
    /\ snes' = [snes EXCEPT !.run.pc = "snes_solve"]
    /\ UNCHANGED outsideSolver

\* line 141: solving_utils.update_parameters(self, self.snes)
SolveUpdateParameters ==
    /\ snes.run.pc = "parameters"
    /\ snes' = [update_parameters(snes, snes.run.solver) EXCEPT !.run.pc = "snes_solve"]
    /\ UNCHANGED outsideSolver

\* lines 143-144: self.snes.solve(None, v), with the parameters the SNES
\* was last updated with
SolveSnes ==
    /\ snes.run.pc = "snes_solve"
    /\ snes' = [snes EXCEPT !.run.used = snes.solvers[snes.run.solver].pushed,
                            !.run.solved = TRUE, !.run.pc = "check"]
    /\ UNCHANGED outsideSolver

\* line 146: solving_utils.check_snes_convergence(self.snes) returns, or
\* raises for a solve that has not converged
SolveCheck ==
    /\ snes.run.pc = "check"
    /\ \E outcome \in {"", "RuntimeError"} :
          snes' = [snes EXCEPT !.run.pc = "checked", !.run.raised = outcome]
    /\ UNCHANGED outsideSolver

\* solve returns or the error leaves it
SolveReturn ==
    /\ snes.run.pc = "checked"
    /\ snes' = [snes EXCEPT !.run = [NoRun EXCEPT !.raised = snes.run.raised]]
    /\ UNCHANGED outsideSolver

NextSolver ==
    \/ SolverConstruct
    \/ SolverConstructRejected
    \/ UserSetsParameter
    \/ SolverDel
    \/ SolveEnter
    \/ SolveApplyBc
    \/ SolveUpdateParameters
    \/ SolveSnes
    \/ SolveCheck
    \/ SolveReturn

\* the module imported, nothing else in use
InitSolver ==
    /\ NoObject
    /\ form = PlainForm
    /\ mpi = NoMpi
    /\ snes = NoSnes

SpecSolver == InitSolver /\ [][NextSolver]_vars

\* ---------------------------------------------------------------- P1PC
\* the residuals handed to P1PC.apply are multiples of this
CoarseUnit ==
    IF cache.hasP1_op THEN assembled[hist.P1Version + 1].P1_unit
    ELSE assembled[opVersion + 1].P1_unit

\* a setUp that gives the coarse solver the prefix of the patch solver
P1SetUpSubPrefix ==
    /\ pcB = "idle"
    /\ pcC = "idle"
    /\ hist.setups < MaxCalls
    /\ cache' = [cache EXCEPT
                   !.P1_op = IF cache.hasP1_op THEN @ ELSE assembled[opVersion + 1].P1_op,
                   !.hasP1_op = TRUE,
                   !.transfer_op = IF cache.hasTransfer_op THEN @ ELSE TransferOp(ctx),
                   !.hasTransfer_op = TRUE]
    /\ \E pfx \in OuterPrefixes :
          lo' = [exists |-> TRUE, prefix |-> pfx \o "sub_", op |-> cache'.P1_op,
                 transfer |-> cache'.transfer_op]
    /\ work1' = ZeroVec(P1VecLen(ctx))
    /\ work2' = ZeroVec(P1VecLen(ctx))
    /\ raised' = ""
    /\ hist' = [hist EXCEPT !.setups = @ + 1,
                            !.P1Version = IF cache.hasP1_op THEN @ ELSE opVersion]
    /\ UNCHANGED <<outsideP1, opVersion, pcB, xc, yc>>

\* P1PC.setUp(pc): the first evaluation of ctx.P1_op and of ctx.transfer_op
\* builds and caches them; later ones return the cached values
P1SetUp ==
    /\ pcB = "idle"
    /\ pcC = "idle"
    /\ hist.setups < MaxCalls
    /\ cache' = [cache EXCEPT
                   !.P1_op = IF cache.hasP1_op THEN @ ELSE assembled[opVersion + 1].P1_op,
                   !.hasP1_op = TRUE,
                   !.transfer_op = IF cache.hasTransfer_op THEN @ ELSE TransferOp(ctx),
                   !.hasTransfer_op = TRUE]
    /\ \E pfx \in OuterPrefixes :
          lo' = [exists |-> TRUE, prefix |-> pfx \o "lo_", op |-> cache'.P1_op,
                 transfer |-> cache'.transfer_op]
    /\ work1' = ZeroVec(P1VecLen(ctx))
    /\ work2' = ZeroVec(P1VecLen(ctx))
    /\ raised' = ""
    /\ hist' = [hist EXCEPT !.setups = @ + 1,
                            !.P1Version = IF cache.hasP1_op THEN @ ELSE opVersion]
    /\ UNCHANGED <<outsideP1, opVersion, pcB, xc, yc>>

\* P1PC.apply(pc, x, y) is entered with the residual xin
P1ApplyEnter(xin) ==
    /\ pcB = "idle"
    /\ xc' = xin
    /\ pcB' = "set0"
    /\ raised' = ""
    /\ UNCHANGED <<elsewhere, ctx, assembled, opVersion, cache, lo, work1, work2, yc, halo, wk, obj>>

\* the caller invokes P1PC.apply(pc, x, y)
P1ApplyCall ==
    /\ pcC = "idle"
    /\ hist.applies < MaxCalls
    /\ LET unit == CoarseUnit
       IN \E u \in InputVecs(VecLen(ctx)) : P1ApplyEnter(Scaled(unit, u))
    /\ hist' = [hist EXCEPT !.applies = @ + 1]
    /\ UNCHANGED <<elsewhere, ksp, pcA, i, x, y, b, ly, tmp_ys, pcC>>

\* an apply that leaves in y what the caller handed over
P1ApplyKeepY ==
    /\ pcB = "set0"
    /\ pcB' = "zero1"
    /\ UNCHANGED <<outsideP1, opVersion, cache, lo, work1, work2, xc, yc, raised, hist>>

\* line 308: y.set(0)
P1ApplyZeroY ==
    /\ pcB = "set0"
    /\ yc' = ZeroVec(Len(yc))
    /\ pcB' = "zero1"
    /\ UNCHANGED <<outsideP1, opVersion, cache, lo, work1, work2, xc, raised, hist>>

\* line 309: self.work1.set(0), an AttributeError before setUp
P1ApplyZeroWork1 ==
    /\ pcB = "zero1"
    /\ IF ~lo.exists
       THEN raised' = "AttributeError" /\ pcB' = "idle" /\ work1' = work1
       ELSE raised' = raised /\ pcB' = "zero2" /\ work1' = ZeroVec(Len(work1))
    /\ UNCHANGED <<outsideP1, opVersion, cache, lo, work2, xc, yc, hist>>

\* line 310: self.work2.set(0)
P1ApplyZeroWork2 ==
    /\ pcB = "zero2"
    /\ work2' = ZeroVec(Len(work2))
    /\ pcB' = "restrict"
    /\ UNCHANGED <<outsideP1, opVersion, cache, lo, work1, xc, yc, raised, hist>>

\* line 311: self.transfer.mult(x, self.work1)
P1ApplyRestrict ==
    /\ pcB = "restrict"
    /\ work1' = MatMult(lo.transfer, xc)
    /\ pcB' = "solve"
    /\ UNCHANGED <<outsideP1, opVersion, cache, lo, work2, xc, yc, raised, hist>>

\* an inner preconditioner that hands its input back
SkipCoarseSolve(op, rhs) == rhs

\* PC.apply of the inner preconditioner: the solve with the coarse operator
CoarseSolve(op, rhs) == DirectSolve(op, rhs)

\* line 312: self.pc.apply(self.work1, self.work2)
P1ApplyCoarseSolve ==
    /\ pcB = "solve"
    /\ work2' = CoarseSolve(lo.op, work1)
    /\ pcB' = "prolong"
    /\ UNCHANGED <<outsideP1, opVersion, cache, lo, work1, xc, yc, raised, hist>>

\* a prolongation by a matrix of its own
ProlongIndependently(t, v) == MatMult(IndependentProlongation(ctx), v)

\* the prolongation: the transpose of the transfer matrix t applied to v
Prolong(t, v) == MatMultTranspose(t, v)

\* line 313: self.transfer.multTranspose(self.work2, y)
P1ApplyProlong ==
    /\ pcB = "prolong"
    /\ yc' = Prolong(lo.transfer, work2)
    /\ pcB' = "return"
    /\ UNCHANGED <<outsideP1, opVersion, cache, lo, work1, work2, xc, raised, hist>>

\* apply returns to the caller
P1ApplyReturn ==
    /\ pcB = "return"
    /\ pcB' = "idle"
    /\ UNCHANGED <<outsideP1, opVersion, cache, lo, work1, work2, xc, yc, raised, hist>>

P1ApplySteps ==
    \/ P1ApplyZeroY
    \/ P1ApplyZeroWork1
    \/ P1ApplyZeroWork2
    \/ P1ApplyRestrict
    \/ P1ApplyCoarseSolve
    \/ P1ApplyProlong
    \/ P1ApplyReturn

NextCoarse ==
    \/ P1SetUp
    \/ P1ApplyCall
    \/ P1ApplySteps
    \/ Rebuild

InitCoarse == InitCommon /\ y = ZeroVec(VecLen(ctx))

SpecCoarse == InitCoarse /\ [][NextCoarse]_vars

\* ------------------------------------------------- composite operator
\* Apply(x) = PatchSmoother.Apply(x) + CoarseCorrection.Apply(x): the two
\* python preconditioners are applied to the same x, the first into y, the
\* second into a work vector (yc), and the work vector is added to y.
CompositeUnit == Lcm(PatchUnit, CoarseUnit)

\* the composite is applied to a residual, its stages having been set up
\* (the outer solver sets a preconditioner up before it applies it): its
\* first stage begins
CompositeApplyCall ==
    /\ pcC = "idle"
    /\ pcB = "idle"
    /\ ksp.exists
    /\ lo.exists
    /\ LET unit == CompositeUnit
       IN \E u \in InputVecs(VecLen(ctx)) : PatchApplyEnter(Scaled(unit, u))
    /\ pcC' = "patch"
    /\ UNCHANGED <<elsewhere, lo, work1, work2, pcB, xc, yc>>

\* the first stage has returned: the second stage begins with the same x
CompositeCoarse ==
    /\ pcC = "patch"
    /\ pcA = "idle"
    /\ raised = ""
    /\ P1ApplyEnter(x)
    /\ pcC' = "coarse"
    /\ UNCHANGED <<elsewhere, ksp, pcA, i, x, y, b, ly, tmp_ys, hist>>

\* the second stage has returned: its output is added to the first's
CompositeSum ==
    /\ pcC = "coarse"
    /\ pcB = "idle"
    /\ raised = ""
    /\ y' = [k \in 1..Len(y) |-> y[k] + yc[k]]
    /\ pcC' = "return"
    /\ UNCHANGED <<elsewhere, ctx, assembled, opVersion, cache, ksp, pcA, i, x, b, ly, tmp_ys,
                   raised, hist, lo, work1, work2, pcB, xc, yc, halo, wk, obj>>

CompositeReturn ==
    /\ pcC = "return"
    /\ pcC' = "idle"
    /\ UNCHANGED <<elsewhere, ctx, assembled, opVersion, cache, ksp, pcA, i, x, y, b, ly, tmp_ys,
                   raised, hist, lo, work1, work2, pcB, xc, yc, halo, wk, obj>>

PatchApplySteps ==
    \/ PatchApplyZero
    \/ PatchApplyCtx
    \/ PatchApplyReset
    \/ PatchApplySetOperators
    \/ PatchApplyGather
    \/ PatchApplySolve
    \/ PatchApplyScatter
    \/ PatchApplyReturn

NextComposite ==
    \/ PatchSetUp
    \/ P1SetUp
    \/ Rebuild
    \/ CompositeApplyCall
    \/ PatchApplySteps
    \/ CompositeCoarse
    \/ P1ApplySteps
    \/ CompositeSum
    \/ CompositeReturn

\* the output vectors hold whatever an earlier use left in them
InitComposite ==
    /\ InitCommon
    /\ y = Garbage(VecLen(ctx))
    /\ yc = Garbage(VecLen(ctx))

SpecComposite == InitComposite /\ [][NextComposite]_vars

NextPatch ==
    \/ PatchSetUp
    \/ Rebuild
    \/ PatchApplyCall
    \/ PatchApplyZero
    \/ PatchApplyCtx
    \/ PatchApplyReset
    \/ PatchApplySetOperators
    \/ PatchApplyGather
    \/ PatchApplySolve
    \/ PatchApplyScatter
    \/ PatchApplyReturn

SpecPatch == InitPatch /\ [][NextPatch]_vars

SpecMarked == InitMarked /\ [][NextPatch]_vars

SpecSingular == InitSingular /\ [][NextPatch]_vars

\* the constructor, and PatchPC on the object once the caller has it
NextConstruct ==
    \/ ConstructEnter
    \/ ConstructP1
    \/ ConstructBcs
    \/ ConstructPatches
    \/ (obj.bound /\ NextPatch)

SpecConstruct == InitConstruct /\ [][NextConstruct]_vars

SpecMapper == InitConstruct /\ [][NextMapper]_vars

\* the constructor for the boundary conditions of BcsInputs
SpecBcs == InitConstruct /\ [][NextBcs]_vars

\* the constructor and PatchPC, for the forms of Forms
SpecKernels == InitKernels /\ [][NextConstruct]_vars

\* a PC is handed one of the two classes as its python context, and a run
\* exercises one of them: a call of the one is made only while the other is
\* unused, not set up and its output vector as it was handed over
NextBoth ==
    \/ (pcB = "idle" /\ ~lo.exists /\ yc = Garbage(Len(yc)) /\ NextPatch)
    \/ (pcA = "idle" /\ ~ksp.exists /\ y = Garbage(Len(y)) /\ NextCoarse)

\* the output vectors hold other values when the first apply begins
InitBoth ==
    /\ InitCommon
    /\ y = Garbage(VecLen(ctx))
    /\ yc = Garbage(VecLen(ctx))

SpecBoth == InitBoth /\ [][NextBoth]_vars

\* the two setUps, each under the outer prefix of its PC
NextOptions ==
    \/ PatchSetUp
    \/ P1SetUp
    \/ Rebuild

SpecOptions == InitCommon /\ [][NextOptions]_vars

\* PatchPC together with the Halo of its function space, on 1..MaxProcs
\* processes
InitHalo ==
    /\ InitCore
    /\ yc = ZeroVec(VecLen(ctx))
    /\ \E size \in 1..MaxProcs : halo = HaloOn(size)

NextHalo ==
    \/ NextPatch
    \/ HaloBegin
    \/ HaloEnd

SpecHalo == InitHalo /\ [][NextHalo]_vars

\* ------------------------------------------------------------- properties
\* what patch p adds to entry k of the correction, read from the stored
\* local solutions sols
Contribution(c, sols, p, k) ==
    LET d == (k - 1) \div c.dim
        l == LocalOf(c, p, d)
    IN IF l < 0 THEN 0 ELSE sols[p][l * c.dim + ((k - 1) % c.dim) + 1]

ApplyDone == pcA = "return"

\* C1: when PatchPC.apply has run to its end, every stored local solution
\* solves its patch operator against the gathered residual with the
\* boundary-fixed entries zeroed, and every entry of y is the sum, over the
\* patches that contain its node, of the local solutions' entries for it.
C1_PatchApplyIsSumOfLocalSolves ==
    ApplyDone =>
        /\ Len(tmp_ys) = NumPatches(ctx)
        /\ \A p \in 1..NumPatches(ctx) :
              MatMult(cache.matrices[p], tmp_ys[p]) = LocalRhs(ctx, x, p)
        /\ \A k \in 1..Len(y) :
              y[k] = SumSeq([p \in 1..NumPatches(ctx) |-> Contribution(ctx, tmp_ys, p, k)])

\* an apply has ended in which two patches both add a non-zero value to one
\* entry of y
C1_Witness ==
    /\ ApplyDone
    /\ \E k \in 1..Len(y) : \E p, q \in 1..NumPatches(ctx) :
          /\ p # q
          /\ Contribution(ctx, tmp_ys, p, k) # 0
          /\ Contribution(ctx, tmp_ys, q, k) # 0

\* the rows (from 0) of the boundary-fixed nodes of patch p, every component
BcRowsOf(c, p) == {l * c.dim + cc : l \in Range(BcDofs(c, p)), cc \in 0..(c.dim - 1)}

UnitRowAndColumn(m, r) ==
    \A s \in 1..Len(m) :
        /\ m[r][s] = (IF r = s THEN 1 ELSE 0)
        /\ m[s][r] = (IF r = s THEN 1 ELSE 0)

\* C3: in every cached patch operator the row and the column of every
\* component of every boundary-fixed node are zero but for a one on the
\* diagonal; the right-hand side handed to every local solve is zero there;
\* and so is every local solution.
C3_BoundaryElimination ==
    /\ cache.hasMatrices =>
          \A p \in 1..NumPatches(ctx) : \A r \in BcRowsOf(ctx, p) :
              UnitRowAndColumn(cache.matrices[p], r + 1)
    /\ pcA = "solve" => \A r \in BcRowsOf(ctx, i) : b[r + 1] = 0
    /\ pcA \in {"reset", "setops", "gather", "solve", "scatter", "return"} =>
          \A p \in 1..Len(tmp_ys) : \A r \in BcRowsOf(ctx, p) : tmp_ys[p][r + 1] = 0

\* a solve is about to run on a vector-valued patch whose residual is not
\* zero at the second component of a boundary-fixed node
C3_Witness ==
    /\ pcA = "solve"
    /\ ctx.dim > 1
    /\ \E l \in Range(BcDofs(ctx, i)) :
          /\ x[PatchDofs(ctx, i)[l + 1] * ctx.dim + 2] # 0
          /\ b[l * ctx.dim + 2] = 0

\* ------------------------------------------------------ P1PC properties
P1BeforeSolveEnds == pcB \in {"zero1", "zero2", "restrict", "solve"}

\* C4 (amended): P1PC.apply restricts, then solves, then prolongs: the
\* coarse solve is handed the restricted residual, the prolongation is
\* handed the solution of the coarse operator against it, the returned y is
\* the prolongation of that solution, and until the coarse solve has
\* finished y holds nothing but the zeros of y.set(0).
C4_RestrictSolveProlong ==
    /\ pcB = "solve" => work1 = MatMult(lo.transfer, xc)
    /\ pcB \in {"prolong", "return"} =>
          /\ work1 = MatMult(lo.transfer, xc)
          /\ MatMult(lo.op, work2) = work1
    /\ pcB = "return" => yc = MatMultTranspose(lo.transfer, work2)
    /\ P1BeforeSolveEnds => yc = ZeroVec(Len(yc))

\* an apply is about to return a non-zero correction
C4_Witness ==
    /\ pcB = "return"
    /\ yc # ZeroVec(Len(yc))
    /\ work1 # ZeroVec(Len(work1))

\* C4 (as stated): y is never written before the coarse solve has finished,
\* the only step that changes y is the prolongation.
C4_YWrittenOnlyByProlongation == [][yc' # yc => pcB = "prolong"]_vars

\* the matrix the restriction acts by, read off column by column
RestrictionMatrix ==
    [r \in 1..P1VecLen(ctx) |-> [t \in 1..VecLen(ctx) |->
        MatMult(lo.transfer, [q \in 1..VecLen(ctx) |-> IF q = t THEN 1 ELSE 0])[r]]]

\* the matrix the prolongation acts by, read off column by column
ProlongationMatrix ==
    [t \in 1..VecLen(ctx) |-> [r \in 1..P1VecLen(ctx) |->
        Prolong(lo.transfer, [q \in 1..P1VecLen(ctx) |-> IF q = r THEN 1 ELSE 0])[t]]]

\* C5: the restriction and the prolongation of an apply act by the one
\* cached transfer matrix, and the matrix of the restriction is the
\* transpose of the matrix of the prolongation, entry by entry (so a zero of
\* one is a zero of the other); the two are adjoint on the vectors of the
\* apply.
C5_RestrictionIsTransposeOfProlongation ==
    pcB = "return" =>
        /\ lo.transfer = cache.transfer_op
        /\ \A r \in 1..P1VecLen(ctx) : \A t \in 1..VecLen(ctx) :
              RestrictionMatrix[r][t] = ProlongationMatrix[t][r]
        /\ Dot(work1, work2) = Dot(xc, yc)

\* an apply is about to return on a quadratic space with boundary
\* conditions, where the transfer weights differ between nodes and some rows
\* are left out, after a coarse solve with a non-zero result
C5_Witness ==
    /\ pcB = "return"
    /\ ctx.degree > 1
    /\ ctx.bcs # <<>>
    /\ work2 # ZeroVec(Len(work2))
    /\ \E r \in 1..P1VecLen(ctx) : \E t, u \in 1..VecLen(ctx) :
          /\ lo.transfer[r][t] # 0
          /\ lo.transfer[r][u] # 0
          /\ lo.transfer[r][t] # lo.transfer[r][u]

\* ------------------------------------------------ composite properties
\* what PatchPC.apply returns for the residual xx, in closed form: entry by
\* entry the sum of the patches' local solutions
PatchCorrection(c, ms, xx) ==
    LET sols == [p \in 1..NumPatches(c) |-> DirectSolve(ms[p], LocalRhs(c, xx, p))]
    IN [k \in 1..VecLen(c) |->
          SumSeq([p \in 1..NumPatches(c) |-> Contribution(c, sols, p, k)])]

\* what P1PC.apply returns for the residual xx, in closed form
CoarseCorrection(t, op, xx) == MatMultTranspose(t, DirectSolve(op, MatMult(t, xx)))

CompositeSummed ==
    pcC = "return" =>
        /\ xc = x
        /\ yc = CoarseCorrection(cache.transfer_op, cache.P1_op, x)
        /\ LET patch == Stored(PatchCorrection(ctx, cache.matrices, x))
           IN y = [k \in 1..Len(y) |-> patch[k] + yc[k]]

CoarseStageBegins ==
    (pcC = "coarse" /\ pcB = "set0") => y = PatchCorrection(ctx, cache.matrices, x)

\* C6: when the composite has summed, y is the patch correction of x plus
\* the coarse correction of the same x; the coarse stage begins with y
\* holding the patch correction, no step of the coarse stage changes y, and
\* the coarse stage's own output is the coarse correction.
C6_CompositeIsSumOfComponents ==
    /\ []CompositeSummed
    /\ []CoarseStageBegins
    /\ [][(pcC = "coarse" /\ pcC' = "coarse") => y' = y]_vars

\* the composite has summed two corrections that are both non-zero at one
\* entry, starting from output vectors that held other values
C6_Witness ==
    /\ pcC = "return"
    /\ \E k \in 1..Len(y) : yc[k] # 0 /\ y[k] # yc[k] /\ y[k] # 0
    /\ hist.applies = MaxCalls

\* ------------------------------------------------ PatchPC life cycle
\* the state of the smoother: Uninitialized until setUp has stored the
\* handle, Applying while an apply of a set-up smoother runs, Ready otherwise
Phase ==
    IF ~ksp.exists THEN "Uninitialized"
    ELSE IF pcA # "idle" THEN "Applying"
    ELSE "Ready"

PhaseEdges ==
    {<<"Uninitialized", "Ready">>, <<"Ready", "Applying">>, <<"Applying", "Ready">>}

PatchLoopRuns == pcA \in {"reset", "setops", "gather", "solve", "scatter", "return"}

\* the statements an apply still has to run before it has returned
StepsLeft ==
    LET np == NumPatches(ctx)
    IN CASE pcA = "idle" -> 0
         [] pcA = "return" -> 1
         [] pcA = "scatter" -> (np - i) + 2
         [] pcA = "solve" -> 4 * (np - i) + np + 2
         [] pcA = "gather" -> 4 * (np - i) + np + 3
         [] pcA = "setops" -> 4 * (np - i) + np + 4
         [] pcA = "reset" -> 4 * (np - i) + np + 5
         [] pcA = "ctx" -> 5 * np + 2
         [] pcA = "set0" -> 5 * np + 3

\* C7: the smoother only moves Uninitialized -> Ready -> Applying -> Ready;
\* no apply gets to its loops before setUp has completed (it ends with an
\* AttributeError and stores no solution); an apply begun in Ready returns
\* to Ready: it raises nothing, its next statement can always run (the
\* solve has a solution), and every step leaves fewer statements to run; and in Ready a further apply
\* can always begin, however many have run since the one setUp.
C7_LifeCycle ==
    /\ [][Phase' # Phase => <<Phase, Phase'>> \in PhaseEdges]_vars
    /\ [](PatchLoopRuns => ksp.exists)
    /\ [](raised # "" => (~ksp.exists /\ tmp_ys = <<>>))
    /\ [](Phase = "Applying" =>
            /\ raised = ""
            /\ IF pcA = "solve" THEN Solvable(ksp.op, b) ELSE ENABLED PatchApplySteps)
    /\ [][Phase = "Applying" => (StepsLeft' < StepsLeft /\ StepsLeft' >= 0)]_vars
    /\ []((Phase = "Ready" /\ hist.applies < MaxCalls) => ENABLED PatchApplyCall)

\* a second apply after one setUp is about to return
C7_Witness ==
    /\ pcA = "return"
    /\ hist.setups = 1
    /\ hist.loops = MaxCalls
    /\ raised = ""

\* C8: once setUp has run after a rebuild, an apply solves only with patch
\* operators computed for the current operator version.
C8_NoStaleOperatorAfterSetUp ==
    (pcA = "solve" /\ hist.setupVersion = opVersion) =>
        /\ hist.matricesVersion = opVersion
        /\ ksp.op = assembled[opVersion + 1].matrices[i]

C10_GhostAccumulationOncePerApply ==
    (pcA = "return" /\ halo.size > 1) => hist.haloExchanges = 1

IdentityMat(len) == [r \in 1..len |-> [t \in 1..len |-> IF r = t THEN 1 ELSE 0]]

\* C12: for a patch all of whose dofs are boundary-fixed, the operator the
\* apply solves with is the identity, the solve of the patch is solvable
\* and gives the zero vector, so the patch adds zero to every entry of the
\* correction; and an apply after setUp raises nothing.
C12_DegeneratePatchAddsZero ==
    /\ \A p \in 1..NumPatches(ctx) :
          Degenerate(ctx, p) =>
             /\ cache.hasMatrices =>
                   cache.matrices[p] = IdentityMat(Len(PatchDofs(ctx, p)) * ctx.dim)
             /\ (pcA = "solve" /\ i = p) => Solvable(ksp.op, b)
             /\ Len(tmp_ys) >= p =>
                   /\ tmp_ys[p] = ZeroVec(Len(PatchDofs(ctx, p)) * ctx.dim)
                   /\ \A k \in 1..Len(y) : Contribution(ctx, tmp_ys, p, k) = 0
    /\ (ksp.exists /\ pcA # "idle") => raised = ""
    /\ ApplyDone => Len(tmp_ys) = NumPatches(ctx)

\* an apply has ended on a problem with a fully boundary-fixed patch and a
\* patch with free dofs, for a residual that is non-zero on the fixed patch,
\* and the other patch has added a non-zero value
C12_Witness ==
    /\ ApplyDone
    /\ raised = ""
    /\ \E p, q \in 1..NumPatches(ctx) :
          /\ Degenerate(ctx, p)
          /\ ~Degenerate(ctx, q)
          /\ \E k \in 1..Len(x) : x[k] # 0 /\ LocalOf(ctx, p, (k - 1) \div ctx.dim) >= 0
          /\ \E k \in 1..Len(y) : Contribution(ctx, tmp_ys, q, k) # 0

C14_RankCheckedAtConstruction ==
    /\ obj.raised # "" <=> obj.pc = "raised"
    /\ obj.pc = "raised" =>
          /\ obj.raised = "NotImplementedError"
          /\ obj.args.rank >= 2
          /\ DOMAIN ctx = {"ncells", "degree", "rank", "dim"}
    /\ obj.pc \in {"bcs", "patches", "done"} => obj.args.rank \in {0, 1}
    /\ obj.pc = "done" <=> obj.bound
    /\ obj.bound => ctx = SubspaceCorrectionPrecInit(obj.args)
    /\ ~obj.bound =>
          /\ ~ksp.exists
          /\ pcA = "idle"
          /\ hist = HistInit
          /\ cache = NoCache

\* the constructor has raised for a tensor-valued space given with boundary
\* conditions
C14_Witness ==
    /\ obj.pc = "raised"
    /\ obj.args.rank = 2
    /\ obj.args.bcs.kind = "list"
    /\ obj.raised = "NotImplementedError"

\* C15: when the factorization or solve of a patch has failed in an apply,
\* a SingularPatchError for that patch has been raised and has ended the
\* apply (no tolerance of partial failure having been asked for).
C15_FailureRaisesSingularPatchError ==
    hist.failed # 0 => raised = "SingularPatchError" /\ pcA = "idle"

\* node d is in the node set of one of the boundary conditions of c
Constrained(c, d) ==
    \E q \in 1..Len(c.bcs) : d \in Range(BcNodes(c.ncells, c.bcs[q].sub_domain))

\* node d is in patch p and is not boundary-fixed there
FreeIn(c, p, d) ==
    /\ d \in Range(PatchDofs(c, p))
    /\ LocalOf(c, p, d) \notin Range(BcDofs(c, p))

\* C16: every node of a patch that is in the node set of one of the
\* boundary conditions is listed in the bc_patches entry of that patch,
\* whether bcs was None, one condition or a list of conditions.
C16_ConstrainedDofsFixedInEveryPatch ==
    \A p \in 1..NumPatches(ctx) : \A d \in Range(PatchDofs(ctx, p)) :
        Constrained(ctx, d) => LocalOf(ctx, p, d) \in Range(BcDofs(ctx, p))

\* the preconditioner was made with two boundary conditions that share a
\* node, that node and a node of the second condition alone are in patches,
\* and the patch handle has been set up
C16_Witness ==
    /\ Len(ctx.bcs) = 2
    /\ ksp.exists
    /\ \E p, q \in 1..NumPatches(ctx) : \E d \in Range(PatchDofs(ctx, p)) :
          \E e \in Range(PatchDofs(ctx, q)) :
             /\ d \in Range(BcNodes(ctx.ncells, ctx.bcs[1].sub_domain))
             /\ d \in Range(BcNodes(ctx.ncells, ctx.bcs[2].sub_domain))
             /\ e \notin Range(BcNodes(ctx.ncells, ctx.bcs[1].sub_domain))
             /\ e \in Range(BcNodes(ctx.ncells, ctx.bcs[2].sub_domain))

\* C17: the nodes that are free in some patch are exactly the nodes of V
\* that no boundary condition constrains.
C17_FreeDofsCoverGlobalFreeSet ==
    \A d \in 0..(NumNodes(ctx.ncells, ctx.degree) - 1) :
        (\E p \in 1..NumPatches(ctx) : FreeIn(ctx, p, d)) <=> ~Constrained(ctx, d)

\* the preconditioner was made with no boundary condition on a mesh with
\* two patches, an end node of the mesh is free in its patch, a node is
\* free in one patch and fixed in the other, and the operators are built
C17_Witness ==
    /\ ctx.bcs = <<>>
    /\ NumPatches(ctx) = 2
    /\ cache.hasMatrices
    /\ FreeIn(ctx, 1, 0)
    /\ \E d \in Range(PatchDofs(ctx, 1)) : FreeIn(ctx, 1, d) /\ ~FreeIn(ctx, 2, d)
                                             /\ d \in Range(PatchDofs(ctx, 2))

\* the cells of patch p
CellsOf(c, p) == Slice(c.cells.value, c.cells.offset[p], c.cells.offset[p + 1])

KspOptionsRead(prefix) == {prefix \o key : key \in {"ksp_type", "pc_type"}}

\* the option names PC.setFromOptions looks up
PcOptionsRead(prefix) == {prefix \o key : key \in {"pc_type"}}

\* C20: the patch solver's prefix is an outer prefix followed by "sub_" and
\* the coarse solver's is an outer prefix followed by "lo_"; the two differ,
\* and no option name one of them looks up is looked up by the other.
C20_OptionNamespacesDisjoint ==
    /\ ksp.exists => \E pfx \in OuterPrefixes : ksp.prefix = pfx \o "sub_"
    /\ lo.exists => \E pfx \in OuterPrefixes : lo.prefix = pfx \o "lo_"
    /\ (ksp.exists /\ lo.exists) =>
          /\ ksp.prefix # lo.prefix
          /\ KspOptionsRead(ksp.prefix) \cap PcOptionsRead(lo.prefix) = {}

\* both solvers have been set up under the same non-empty outer prefix
C20_Witness ==
    /\ ksp.exists
    /\ lo.exists
    /\ ksp.prefix = "fieldsplit_0_sub_"
    /\ lo.prefix = "fieldsplit_0_lo_"

\* the causes for which the kernels of a form are refused
FormCauses(a) ==
    {cause \in {"mixed", "integral_type", "oriented", "coefficients"} :
        \E j \in 1..Len(a) :
            \/ cause = "mixed" /\ a[j].indices # <<0, 0>>
            \/ cause = "integral_type" /\ a[j].integral_type # "cell"
            \/ cause = "oriented" /\ a[j].oriented
            \/ cause = "coefficients" /\ Len(a[j].coefficient_map) # 0}

\* C21: a form with a mixed space, a non-cell integral, an oriented kernel
\* or a coefficient is refused when the preconditioner is constructed: the
\* constructor never returns an object for such a form.
C21_RefusedAtConstruction == obj.bound => FormCauses(form) = {}

Symmetric(m) == \A r, s \in 1..Len(m) : m[r][s] = m[s][r]

\* the rows and columns S of m
PrincipalSubmatrix(m, S) ==
    LET idx == SortedSeq(S)
    IN [r \in 1..Len(idx) |-> [s \in 1..Len(idx) |-> m[idx[r]][idx[s]]]]

\* a symmetric m is positive semi-definite when none of its principal
\* minors is negative
PositiveSemiDefinite(m) ==
    \A S \in SUBSET (1..Len(m)) : Det(PrincipalSubmatrix(m, S)) >= 0

\* C22: the forms of the model are symmetric positive-definite; every patch
\* operator that ctx.matrices has built, with the rows and columns of its
\* boundary-fixed dofs zeroed and one on their diagonal, is symmetric and
\* positive semi-definite.
C22_PatchOperatorsSymmetricPsd ==
    cache.hasMatrices =>
        \A p \in 1..NumPatches(ctx) :
            /\ Symmetric(cache.matrices[p])
            /\ PositiveSemiDefinite(cache.matrices[p])

\* the operators are built and one of them has a boundary-fixed dof that
\* the form couples to a free dof of the patch: an entry of its row and the
\* mirrored entry of its column were both zeroed
C22_Witness ==
    /\ cache.hasMatrices
    /\ \E p \in 1..NumPatches(ctx) :
          \E r \in Range(BlockRows(BcDofs(ctx, p), ctx.dim)) :
             \E s \in 1..Len(cache.matrices[p]) :
                /\ s # r + 1
                /\ (s - 1) \notin Range(BlockRows(BcDofs(ctx, p), ctx.dim))
                /\ cache.matrices[p][r + 1][s] = 0
                /\ cache.matrices[p][s][r + 1] = 0
                /\ LET size == Len(cache.matrices[p])
                       mmap == Slice(ctx.dof_patches.value, ctx.dof_patches.offset[p],
                                     Len(ctx.dof_patches.value))
                       end == ctx.cells.offset[p + 1] - ctx.cells.offset[p]
                   IN MatrixCallable(ctx.degree, ctx.dim, hist.matricesVersion, size,
                                     end, mmap)[s][r + 1] # 0

\* C23: the datatype a call of Halo.begin or Halo.end works with was stored
\* in the registry through the same Halo: what one Halo stored is not handed
\* to another.
C23_RegistryScopedToHalo ==
    mpi.pc \in {"halo_begin", "setflags", "halo_end", "unsetflags", "returned"} =>
        mpi.mtype.via = mpi.call.halo

\* the keys of the registry
MtypeKeys(types) == {e.key : e \in types}

\* the registry holds one datatype per key, no key had two datatypes
\* created for it, and what is stored is the base type for cdim 1 and the
\* contiguous type created for the key otherwise
OneDatatypePerKey ==
    /\ \A e, f \in mpi.types : e.key = f.key => e = f
    /\ \A j, l \in 1..Len(mpi.created) : mpi.created[j] = mpi.created[l] => j = l
    /\ \A e \in mpi.types :
          IF e.key[2] = 1 THEN e.typ = <<TypeDict[e.key[1]]>>
          ELSE /\ Len(e.typ) = 3
               /\ e.typ[1] = TypeDict[e.key[1]]
               /\ e.typ[2] = e.key[2]
               /\ e.typ[3] \in 1..Len(mpi.created)
               /\ mpi.created[e.typ[3]] = e.key

\* the step runs _get_mtype on dat d
GetMtypeRuns(d) ==
    \/ mpi.pc = "idle" /\ mpi'.pc = "got" /\ mpi'.call.dat = d
    \/ /\ mpi.pc \in {"begin", "end"}
       /\ mpi.halos[mpi.call.halo].size > 1
       /\ mpi.call.dat = d

\* what a run of _get_mtype on dat d does to the registry
MemoStep(d) ==
    LET key == <<mpi.dats[d].dtype, mpi.dats[d].cdim>>
    IN IF key \in MtypeKeys(mpi.types)
       THEN /\ mpi'.types = mpi.types
            /\ mpi'.created = mpi.created
            /\ mpi'.raised = ""
            /\ mpi'.mtype \in mpi.types
            /\ mpi'.mtype.key = key
       ELSE IF mpi.dats[d].dtype \notin DOMAIN TypeDict
       THEN /\ mpi'.types = mpi.types
            /\ mpi'.created = mpi.created
            /\ mpi'.raised = "RuntimeError"
       ELSE /\ MtypeKeys(mpi'.types) = MtypeKeys(mpi.types) \cup {key}
            /\ mpi'.mtype \in mpi'.types
            /\ mpi'.mtype.key = key
            /\ mpi'.raised = ""
            /\ Len(mpi'.created) = Len(mpi.created) + (IF key[2] = 1 THEN 0 ELSE 1)

\* C27: over any sequence of calls _get_mtype makes at most one datatype
\* per key (dtype, cdim): the first call for a key stores the base type for
\* cdim 1 and a newly created contiguous type otherwise, a later call with
\* the key returns the stored datatype and creates nothing, and a call with
\* a dtype that has no base type raises RuntimeError and leaves the
\* registry as it was.
C27_OneDatatypePerKey ==
    /\ []OneDatatypePerKey
    /\ [][\A d \in 1..Len(mpi.dats) : GetMtypeRuns(d) => MemoStep(d)]_vars

\* a call made through one Halo is handed the contiguous type that a call
\* made through the other Halo created and stored
C27_Witness ==
    /\ mpi.pc \in {"halo_begin", "setflags"}
    /\ mpi.mtype.key[2] > 1
    /\ mpi.mtype.via # mpi.call.halo
    /\ Len(mpi.created) = 1

\* C28: on one process Halo.begin and Halo.end return at once and leave
\* every dat and its write flag as they were; Halo.begin never changes a
\* write flag; on more than one process Halo.end has the buffer writable
\* while the exchange ends, and when it returns the buffer is read-only
\* whatever the flag was at the call.
C28_WritableOnlyDuringExchange ==
    [][/\ (mpi.pc \in {"begin", "end"} /\ mpi.halos[mpi.call.halo].size = 1) =>
             (mpi'.dats = mpi.dats /\ mpi'.pc = "idle")
       /\ mpi.call.fn = "begin" =>
             \A d \in 1..Len(mpi.dats) : mpi'.dats[d].write = mpi.dats[d].write
       /\ mpi.pc = "halo_end" => mpi.dats[mpi.call.dat].write
       /\ mpi'.pc = "returned" => ~mpi'.dats[mpi'.call.dat].write
       /\ mpi.pc # "idle" =>
             \A d \in 1..Len(mpi.dats) :
                d # mpi.call.dat => mpi'.dats[d] = mpi.dats[d]]_vars

\* an end on more than one process is about to return for a dat that was
\* writable when end was called, and the dat is read-only
C28_Witness ==
    /\ mpi.pc = "returned"
    /\ mpi.halos[mpi.call.halo].size > 1
    /\ mpi.call.was
    /\ ~mpi.dats[mpi.call.dat].write

\* what the two applies hold at their statements: y zeroed before anything
\* else, the work vectors and y zero when the restriction begins, and at
\* the return y the closed-form correction of x for the operators in use
ApplyReadsOnlyInput ==
    /\ pcA \in {"ctx", "reset"} => y = ZeroVec(Len(y))
    /\ pcA = "return" => y = PatchCorrection(ctx, cache.matrices, x)
    /\ pcB = "restrict" =>
          /\ yc = ZeroVec(Len(yc))
          /\ work1 = ZeroVec(Len(work1))
          /\ work2 = ZeroVec(Len(work2))
    /\ pcB = "return" => yc = CoarseCorrection(lo.transfer, lo.op, xc)

\* the operators the applies solve with stay what they were first made
OperatorsKept ==
    /\ cache.hasMatrices => cache'.matrices = cache.matrices
    /\ lo.exists => (lo'.op = lo.op /\ lo'.transfer = lo.transfer)

\* C24: what PatchPC.apply and P1PC.apply return is a function of x and of
\* the operators alone: y is zeroed first, the work vectors are zeroed
\* before they are used, the returned y is the closed-form correction of x
\* whatever y, the work vectors and the earlier applies left behind, and the
\* operators stay the same from one apply to the next, so that two applies
\* with the same x return the same y.
C24_ApplyDependsOnInputOnly ==
    /\ []ApplyReadsOnlyInput
    /\ [][OperatorsKept]_vars

\* the second P1PC.apply of the run has zeroed y and is given a non-zero
\* residual, while the work vectors still hold the non-zero restriction and
\* coarse solution of the apply before it
C24_Witness ==
    /\ pcB = "zero1"
    /\ hist.applies = 2
    /\ xc # ZeroVec(Len(xc))
    /\ work1 # ZeroVec(Len(work1))
    /\ work2 # ZeroVec(Len(work2))
    /\ work1 # MatMult(lo.transfer, xc)

\* the first loop of apply runs
InSolveLoop == pcA \in {"reset", "setops", "gather", "solve"}

\* where the two loops of apply stand
TwoPhases ==
    /\ InSolveLoop =>
          /\ Len(tmp_ys) = i - 1
          /\ Len(hist.solvedWith) = i - 1
    /\ pcA = "solve" =>
          /\ hist.kspPatch = i
          /\ ksp.op = cache.matrices[i]
    /\ \A j \in 1..Len(hist.solvedWith) : hist.solvedWith[j] = j
    /\ pcA \in {"scatter", "return"} =>
          /\ Len(tmp_ys) = NumPatches(ctx)
          /\ Len(hist.solvedWith) = NumPatches(ctx)

\* what the statements of the two loops do to the handle and to y
TwoPhaseSteps ==
    /\ pcA = "reset" => (ksp'.op = <<>> /\ ~ksp'.factored)
    /\ pcA = "setops" => ksp'.op = cache.matrices[i]
    /\ InSolveLoop => y' = y
    /\ pcA = "solve" => (pcA' = "scatter" <=> i = NumPatches(ctx))
    /\ pcA = "scatter" =>
          /\ y' = ScatterAdd(y, PatchDofs(ctx, i), ctx.dim, tmp_ys[i])
          /\ tmp_ys' = tmp_ys

\* C25: PatchPC.apply has one handle for all patches and two loops: in the
\* first, for each patch i in turn, the handle is reset and handed the
\* operator of patch i before the solve of patch i, so every solve runs on
\* the operator of its own patch; y is not written while the first loop
\* runs and every local solution is stored before the first scatter-add;
\* the second loop adds the i-th stored solution at the global dofs of
\* patch i.
C25_OneHandleTwoPhases ==
    /\ []TwoPhases
    /\ [][TwoPhaseSteps]_vars

\* an apply on two patches with different operators is about to return,
\* and its two local solutions differ
C25_Witness ==
    /\ pcA = "return"
    /\ NumPatches(ctx) = 2
    /\ cache.matrices[1] # cache.matrices[2]
    /\ tmp_ys[1] # tmp_ys[2]
    /\ hist.solvedWith = <<1, 2>>

\* the nodes of all conditions of a tuple, sorted and without duplicates
UnionOfBcNodes(n, bcs) ==
    SortedSeq({v \in 0..n : \E q \in 1..Len(bcs) : v \in Range(BcNodes(n, bcs[q].sub_domain))})

\* C26: for every bcs the constructor is handed on a space it supports, it
\* gets past the boundary conditions without raising, with self.bcs the
\* empty tuple for None, the one-element tuple of a single condition and
\* the conditions of an iterable in their order, and the patches are made
\* for the sorted duplicate-free union of the nodes of all conditions.
C26_BcsNormalised ==
    (obj.pc \in {"patches", "mapped", "raised"} /\ obj.args.rank \in {0, 1}) =>
        /\ obj.raised = ""
        /\ ctx.bcs = (IF obj.args.bcs.kind = "None" THEN <<>>
                      ELSE IF obj.args.bcs.kind = "single" THEN <<obj.args.bcs.val>>
                      ELSE obj.args.bcs.val)
        /\ obj.pc = "mapped" =>
              ctx.bc_patches =
                 get_dof_patches(ctx.ncells, ctx.degree,
                                 UnionOfBcNodes(ctx.ncells, ctx.bcs),
                                 ctx.cells, ctx.facets).b

\* the solvers made so far: one prefix each, numbered by the class counter
\* in the order of construction; a solver that was destroyed has none of
\* its parameter keys left under its prefix, each deleted once
PrefixesNeverReused ==
    /\ snes.id = Len(snes.solvers)
    /\ \A s \in 1..Len(snes.solvers) : snes.solvers[s].prefix = OptPrefix(s - 1)
    /\ \A s, t \in 1..Len(snes.solvers) :
          s # t => snes.solvers[s].prefix # snes.solvers[t].prefix
    /\ \A s \in 1..Len(snes.solvers) :
          LET sv == snes.solvers[s]
          IN IF sv.has_opt_prefix
             THEN sv.dels = 0 /\ sv.removals = 0
             ELSE /\ sv.dels >= 1
                  /\ sv.removals = Cardinality(DOMAIN sv.parameters)
                  /\ OptionNames(sv.prefix, sv.parameters) \cap snes.options = {}

\* what one step does to the counter and to the options database
CounterAndOptionsSteps ==
    /\ snes'.id = snes.id + (Len(snes'.solvers) - Len(snes.solvers))
    /\ snes'.id >= snes.id
    /\ \A s \in 1..Len(snes.solvers) :
          /\ snes'.solvers[s].prefix = snes.solvers[s].prefix
          /\ (snes.solvers[s].dels >= 1 /\ snes'.solvers[s].dels > snes.solvers[s].dels) =>
                (snes'.options = snes.options
                    /\ snes'.solvers[s].removals = snes.solvers[s].removals)
    /\ \A name \in snes.options \ snes'.options :
          \E s \in 1..Len(snes.solvers) :
             /\ snes.solvers[s].has_opt_prefix
             /\ ~snes'.solvers[s].has_opt_prefix
             /\ name \in OptionNames(snes.solvers[s].prefix, snes.solvers[s].parameters)

\* C29: every solver gets the prefix 'firedrake_snes_<n>_' of the class
\* counter at its construction, which no solver made before it has, also
\* when solvers made before it have been destroyed; the counter goes up by
\* one with every construction and never down; destroying a solver deletes
\* each of its parameter keys under its own prefix once and no name of
\* another solver, and destroying it again changes nothing.
C29_PrefixesNeverReused ==
    /\ []PrefixesNeverReused
    /\ [][CounterAndOptionsSteps]_vars

\* the first solver has been destroyed twice, with parameters of its own,
\* and a second solver holds options under the prefix numbered 1
C29_Witness ==
    /\ Len(snes.solvers) = 2
    /\ snes.solvers[1].dels = 2
    /\ snes.solvers[1].removals = 2
    /\ snes.solvers[2].has_opt_prefix
    /\ snes.solvers[2].prefix = "firedrake_snes_1_"
    /\ "firedrake_snes_1_ksp_rtol" \in snes.options

\* where a call of solve stands
SolveInOrder ==
    LET sv == snes.solvers[snes.run.solver]
    IN /\ snes.run.pc = "bcs" => Len(snes.run.applied) <= sv.nbcs
       /\ snes.run.pc \in {"parameters", "snes_solve", "check", "checked"} =>
             snes.run.applied = [j \in 1..sv.nbcs |-> j]
       /\ snes.run.pc \in {"bcs", "parameters", "snes_solve", "check"} =>
             snes.run.raised = ""
       /\ snes.run.pc \in {"bcs", "parameters", "snes_solve"} => ~snes.run.solved
       /\ snes.run.pc = "snes_solve" => sv.pushed = sv.parameters
       /\ snes.run.pc \in {"check", "checked"} =>
             (snes.run.solved /\ snes.run.used = sv.parameters)

\* what a construction leaves in the parameters of the solver it makes
DefaultsForMissingKeys ==
    Len(snes'.solvers) = Len(snes.solvers) + 1 =>
        LET sv == snes'.solvers[Len(snes'.solvers)]
        IN /\ \A k \in DOMAIN sv.given : sv.parameters[k] = sv.given[k]
           /\ sv.pushed = sv.parameters
           /\ IF sv.linear
              THEN /\ "snes_type" \notin DOMAIN sv.given => sv.parameters["snes_type"] = "ksponly"
                   /\ "ksp_rtol" \notin DOMAIN sv.given => sv.parameters["ksp_rtol"] = "1e-7"
              ELSE DOMAIN sv.parameters \subseteq DOMAIN sv.given \cup {"pc_type"}

\* C30: solve applies every boundary condition of the problem to u in
\* turn, then passes the parameters dict as it is now to the SNES, then
\* runs the SNES solve with them, and checks convergence only when the
\* solve has returned; a LinearVariationalSolver sets snes_type 'ksponly'
\* and ksp_rtol 1e-7 for the keys the caller gave no value for and keeps
\* the caller's value for the others.
C30_SolveStepsInOrder ==
    /\ [](snes.run.pc # "idle" => SolveInOrder)
    /\ [][DefaultsForMissingKeys]_vars

\* a linear solver given snes_type only, whose ksp_rtol the user changed
\* after construction, has applied its boundary conditions, solved with the
\* changed parameters and checked convergence
C30_Witness ==
    /\ snes.run.pc = "checked"
    /\ LET sv == snes.solvers[snes.run.solver]
       IN /\ sv.linear
          /\ sv.nbcs = MaxBcs
          /\ sv.given = ("snes_type" :> "newtonls")
          /\ snes.run.used = ("snes_type" :> "newtonls") @@ ("ksp_rtol" :> "1e-9")
          /\ snes.run.applied = [j \in 1..MaxBcs |-> j]

====
